---- MODULE Spec2Model ----
(***************************************************************************)
(* A model of crypto-exchange-proxy: the candle store (app/db/database.py),*)
(* the stream collector's candle callback (app/services/okx_websocket.py), *)
(* the historical data service (app/services/historical_data_service.py),  *)
(* the aggregator (app/services/aggregator.py), the route handler          *)
(* (app/api/candlestick.py) and the exchange client                        *)
(* (app/services/exchange_service.py).                                     *)
(*                                                                         *)
(* The specifications share the variables:                                 *)
(*   Spec        the tasks that write the store through the one shared     *)
(*               aiosqlite connection, interleaved at their awaits;        *)
(*   SpecHist    one get_candlestick_data request, step by step, with a    *)
(*               stream write that may land between its awaits;            *)
(*   SpecAgg     aggregate_candles applied to a store drawn from a bounded *)
(*               family;                                                   *)
(*   SpecRet     the retention delete and the date purge on a store that   *)
(*               holds bars of both pairs;                                 *)
(*   SpecStream  the stream client's connect / resubscribe / receive loop  *)
(*               and the collector's add_watch_pair / remove_watch_pair;   *)
(*   SpecFetch   the exchange client's get_historical_candlestick with its *)
(*               retry loop;                                               *)
(*   SpecRead    the reads of the store interleaved with its writers on    *)
(*               the shared connection;                                    *)
(*   SpecAlign   the two write paths fed with timestamps on and off the    *)
(*               minute boundaries;                                        *)
(*   SpecDrop    the stream callback with insert_candle raising;           *)
(*   SpecChunks  SpecHist on the exchanges with bars in a second chunk;    *)
(*   SpecRoute   the stream client's dispatch of a message by its key;     *)
(*   SpecFan     the ticker fan-out (app/services/websocket_manager.py)    *)
(*               with the /ws/ticker endpoint (app/api/websocket.py);      *)
(*   SpecWalk    the chunk loop of the backfill on real timestamps;        *)
(*   SpecCalls   add_watch_pair / remove_watch_pair called concurrently;   *)
(*   SpecAdmin   the watch-list handlers of app/api/data.py;               *)
(*   SpecLatest  get_latest_candles.                                       *)
(* Prices and volumes are integers; timestamps are epoch milliseconds.     *)
(***************************************************************************)
EXTENDS Integers, Sequences, FiniteSets, TLC

VARIABLES
    rows,           \* candle_data as the shared connection sees it (uncommitted work included)
    disk,           \* candle_data as of the last commit
    nextId,         \* the next AUTOINCREMENT id
    sPc, sQueue,    \* stream callback: position, records of the message still to process
    bPc,            \* insert_candles_batch: position
    rPc,            \* delete_old_candles: position
    ret,            \* delete_old_candles: cutoff_time and cursor.rowcount of its DELETE
    dPc,            \* delete_candles_by_date: position
    ops,            \* number of operations started (bounds the run)
    lastUpsert,     \* history: per key, the bar of the last upsert statement executed on it
    failedApplied,  \* history: rows a failed executemany applied before its error
    exch,           \* minutes for which the exchange has a bar
    h,              \* the get_candlestick_data request in progress
    agg,            \* the aggregate_candles call: arguments and result
    ws,             \* the stream collector, its client and the connection
    fx,             \* the exchange client's get_historical_candlestick call
    rd              \* the last read of the store: what it returned

vars == <<rows, disk, nextId, sPc, sQueue, bPc, rPc, dPc, ops, lastUpsert,
          failedApplied, exch, h, agg, ret, ws, fx, rd>>

storeVars == <<rows, disk, nextId>>
taskVars == <<sPc, sQueue, bPc, rPc, ret, dPc, ops, lastUpsert, failedApplied>>

(***************************************************************************)
(* Program constants and the bounds of the model.                          *)
(***************************************************************************)
MinuteMs == 60000
ChunkSizeHours == 24
DayMs == 24 * 60 * 60 * 1000
RetentionDays == 30

MaxOps == 2          \* operations started in one run of Spec
MaxBatch == 2        \* rows in one executemany
MaxRecords == 2      \* records in one stream message

Pairs == {"BTC-USDT", "ETH-USDT"}

Min2(a, b) == IF a < b THEN a ELSE b
Max2(a, b) == IF a < b THEN b ELSE a

(***************************************************************************)
(* CandleData and the candle_data table.  A bar is a CandleData without    *)
(* id; a row is a bar with the id the table gave it.                       *)
(***************************************************************************)
CandleData(pair, ts, o, hi, lo, c, v, vq, cf) ==
    [coin_pair |-> pair, timestamp |-> ts, open |-> o, high |-> hi, low |-> lo,
     close |-> c, volume |-> v, volume_quote |-> vq, confirm |-> cf]

Key(r) == <<r.coin_pair, r.timestamp>>

BarOf(r) ==
    CandleData(r.coin_pair, r.timestamp, r.open, r.high, r.low, r.close,
               r.volume, r.volume_quote, r.confirm)

RowOf(bar, id) ==
    [id |-> id, coin_pair |-> bar.coin_pair, timestamp |-> bar.timestamp,
     open |-> bar.open, high |-> bar.high, low |-> bar.low, close |-> bar.close,
     volume |-> bar.volume, volume_quote |-> bar.volume_quote, confirm |-> bar.confirm]

\* A conflict clause that forgets the quote volume and the confirm flag.
ConflictUpdateOHLCVOnly(r, bar) ==
    [r EXCEPT !.open = bar.open, !.high = bar.high, !.low = bar.low,
              !.close = bar.close, !.volume = bar.volume]

\* ON CONFLICT(coin_pair, timestamp) DO UPDATE SET ...: the seven assignments.
ConflictUpdate(r, bar) ==
    [r EXCEPT !.open = bar.open, !.high = bar.high, !.low = bar.low,
              !.close = bar.close, !.volume = bar.volume,
              !.volume_quote = bar.volume_quote, !.confirm = bar.confirm]

\* A plain INSERT into a table without the UNIQUE(coin_pair, timestamp) constraint.
InsertNoConflict(tbl, nid, bar) ==
    [rows |-> tbl \cup {RowOf(bar, nid)}, nextId |-> nid + 1]

\* One INSERT ... ON CONFLICT DO UPDATE statement on table tbl.
UpsertStmt(tbl, nid, bar) ==
    IF \E r \in tbl : Key(r) = Key(bar)
    THEN [rows |-> {IF Key(r) = Key(bar) THEN ConflictUpdate(r, bar) ELSE r : r \in tbl},
          nextId |-> nid]
    ELSE [rows |-> tbl \cup {RowOf(bar, nid)}, nextId |-> nid + 1]

\* executemany: the statement once per parameter set, in list order.
RECURSIVE UpsertMany(_, _, _)
UpsertMany(tbl, nid, bars) ==
    IF bars = <<>> THEN [rows |-> tbl, nextId |-> nid]
    ELSE LET one == UpsertStmt(tbl, nid, Head(bars))
         IN UpsertMany(one.rows, one.nextId, Tail(bars))

\* ORDER BY timestamp ASC (ties, which the unique key excludes, by id).
RECURSIVE OrderByTimestamp(_)
OrderByTimestamp(S) ==
    IF S = {} THEN <<>>
    ELSE LET first == CHOOSE r \in S : \A q \in S :
                          \/ r.timestamp < q.timestamp
                          \/ (r.timestamp = q.timestamp /\ r.id <= q.id)
         IN <<first>> \o OrderByTimestamp(S \ {first})

NoArg == -1   \* an optional argument left out (Python None)

\* SELECT * FROM candle_data WHERE coin_pair = ? [AND timestamp >= ?] [AND timestamp <= ?]
\* ORDER BY timestamp ASC [LIMIT ?]
get_candles(tbl, pair, start_time, end_time, limit) ==
    LET sel == {r \in tbl : /\ r.coin_pair = pair
                            /\ (start_time # NoArg => r.timestamp >= start_time)
                            /\ (end_time # NoArg => r.timestamp <= end_time)}
        all == OrderByTimestamp(sel)
    IN IF limit = NoArg THEN all ELSE SubSeq(all, 1, Min2(limit, Len(all)))

\* SELECT ... ORDER BY timestamp DESC LIMIT 1: <<>> for None, else <<row>>.
get_latest_candle(tbl, pair) ==
    LET sel == {r \in tbl : r.coin_pair = pair}
    IN IF sel = {} THEN <<>>
       ELSE <<CHOOSE r \in sel : \A q \in sel :
                  \/ r.timestamp > q.timestamp
                  \/ (r.timestamp = q.timestamp /\ r.id <= q.id)>>

\* get_data_stats: COUNT(*), MIN(timestamp), MAX(timestamp) WHERE coin_pair = ?;
\* the bounds are None when the pair has no row.
get_data_stats(tbl, pair) ==
    LET sel == {r.timestamp : r \in {q \in tbl : q.coin_pair = pair}}
    IN IF sel = {}
       THEN [total_count |-> 0, min_timestamp |-> NoArg, max_timestamp |-> NoArg]
       ELSE [total_count |-> Cardinality({q \in tbl : q.coin_pair = pair}),
             min_timestamp |-> CHOOSE t \in sel : \A u \in sel : t <= u,
             max_timestamp |-> CHOOSE t \in sel : \A u \in sel : t >= u]

\* A DELETE that also takes the bars at the cutoff.
DeleteOlderThanInclusive(tbl, cutoff) == {r \in tbl : ~(r.timestamp <= cutoff)}

\* DELETE FROM candle_data WHERE timestamp < cutoff (every pair).
DeleteOlderThan(tbl, cutoff) == {r \in tbl : ~(r.timestamp < cutoff)}

\* DELETE FROM candle_data WHERE timestamp >= start AND timestamp < end, the day
\* being [date 00:00, next day 00:00); days are counted from the epoch.
DeleteOnDay(tbl, day) ==
    {r \in tbl : ~(r.timestamp >= day * DayMs /\ r.timestamp < (day + 1) * DayMs)}

Prefix(s, k) == SubSeq(s, 1, k)
SeqRange(s) == {s[i] : i \in 1..Len(s)}

(***************************************************************************)
(* The two writers' bars.  An exchange candle of price p is the OHLCV list *)
(* [ts, p, p+1, p-1, p, p]; the stream record carries the quote volume and *)
(* the confirm flag as well.                                               *)
(***************************************************************************)
\* _format_ohlcv_data: the dict built from one OHLCV list (no volume_quote key).
ExchangeCandle(ts, p) ==
    [timestamp |-> ts, open |-> p, high |-> p + 1, low |-> p - 1, close |-> p,
     volume |-> p]

\* _download_and_fill_data, the CandleData built from one fetched candle:
\* volume_quote = candle.get('volume_quote', candle['volume']), confirm = 1.
BackfillCandle(pair, candle) ==
    CandleData(pair, candle.timestamp, candle.open, candle.high, candle.low,
               candle.close, candle.volume, candle.volume, 1)

\* A stream record: [ts, o, h, l, c, vol, volCcy, volCcyQuote, confirm].
StreamRecord(ts, p, cf) == <<ts, p, p + 1, p - 1, p, p, p, 10 * p, cf>>

\* A record that ends before its confirm field.
ShortStreamRecord(ts, p) == <<ts, p, p + 1, p - 1, p, p, p, 10 * p>>

\* A parse that takes a record without a confirm field as confirmed.
ParseRecordAbsentIsConfirmed(pair, rec) ==
    CandleData(pair, rec[1], rec[2], rec[3], rec[4], rec[5], rec[6],
               IF Len(rec) > 7 THEN rec[8] ELSE 0,
               IF Len(rec) > 8 THEN rec[9] ELSE 1)

\* _candle_callback, the parse of one record.
ParseRecord(pair, rec) ==
    CandleData(pair, rec[1], rec[2], rec[3], rec[4], rec[5], rec[6],
               IF Len(rec) > 7 THEN rec[8] ELSE 0,
               IF Len(rec) > 8 THEN rec[9] ELSE 0)

StoreTs == {0, DayMs}   \* the timestamps Spec writes: one in each of two days
Prices == {1, 2}         \* prices on the stream
BackfillPrices == {2}    \* prices the historical endpoint returns

StreamRecords ==
    {StreamRecord(ts, p, cf) : ts \in StoreTs, p \in Prices, cf \in {0, 1}}
    \cup {ShortStreamRecord(0, 1)}
\* The records of the messages that carry more than one.
BurstRecords == {ShortStreamRecord(0, 1), StreamRecord(DayMs, 2, 1)}
\* A data message: arg.instId and up to MaxRecords records; skipped is history,
\* the records of the message the callback has passed over.
StreamMessages ==
    {[instId |-> pair, data |-> d, skipped |-> <<>>] :
        pair \in Pairs,
        d \in [1..1 -> StreamRecords]
                \cup UNION {[1..n -> BurstRecords] : n \in 2..MaxRecords}}
NoMessage == [instId |-> "", data |-> <<>>, skipped |-> <<>>]

BackfillBars(pair) ==
    {BackfillCandle(pair, ExchangeCandle(ts, p)) : ts \in StoreTs, p \in BackfillPrices}
Batches ==
    UNION {UNION {[1..n -> BackfillBars(pair)] : n \in 1..MaxBatch} : pair \in Pairs}

\* History bookkeeping: per key, the bar of the last upsert statement executed on
\* it, the writer that executed it and the writers it overwrote.
RECURSIVE Remember(_, _, _)
Remember(last, bars, who) ==
    IF bars = <<>> THEN last
    ELSE LET b == Head(bars)
             old == {x \in last : Key(x.bar) = Key(b)}
             over == UNION {x.over \cup {x.by} : x \in old}
         IN Remember((last \ old) \cup {[bar |-> b, by |-> who, over |-> over]},
                     Tail(bars), who)

Forget(S, tbl) == {x \in S : \E r \in tbl : Key(r) = Key(x.bar)}
ForgetBars(S, tbl) == {x \in S : \E r \in tbl : Key(r) = Key(x)}

\* The bars of a failed executemany that changed the table before the error.
RECURSIVE AppliedChanges(_, _, _)
AppliedChanges(tbl, nid, bars) ==
    IF bars = <<>> THEN {}
    ELSE LET one == UpsertStmt(tbl, nid, Head(bars))
             rest == AppliedChanges(one.rows, one.nextId, Tail(bars))
         IN IF one.rows # tbl
            THEN {x \in {Head(bars)} : \A y \in SeqRange(Tail(bars)) : Key(y) # Key(x)}
                 \cup rest
            ELSE rest

(***************************************************************************)
(* Spec: the store's writers on the shared connection.  Each database      *)
(* method is an execute (or executemany) followed by a commit, with an     *)
(* await between the two; a commit commits whatever the connection holds.  *)
(***************************************************************************)
\* No get_candlestick_data request is part of the run.
HistOff == [pc |-> "off"]
\* The stream collector is not part of the run.
StreamOff == [pc |-> "off"]
\* The exchange client is not part of the run.
FetchOff == [pc |-> "off"]
\* No read of the store has been made.
NoRead == [op |-> "", seen |-> <<>>, committed |-> <<>>]
\* delete_old_candles is not running.
NoReturn == [cutoff_time |-> NoArg, deleted_count |-> 0]

Init ==
    /\ rows = {} /\ disk = {} /\ nextId = 1
    /\ sPc = "idle" /\ sQueue = NoMessage
    /\ bPc = "idle" /\ rPc = "idle" /\ ret = NoReturn /\ dPc = "idle"
    /\ ops = 0
    /\ lastUpsert = {} /\ failedApplied = {}
    /\ exch = {}
    /\ h = HistOff
    /\ agg = [pc |-> "off"]
    /\ ws = StreamOff
    /\ fx = FetchOff
    /\ rd = NoRead

otherVars == <<exch, h, agg, ws, fx, rd>>

\* OKXWebSocketClient._handle_message hands a data message to _candle_callback.
StreamDeliver(msg) ==
    /\ sPc = "idle" /\ ops < MaxOps
    /\ sPc' = "loop" /\ sQueue' = msg
    /\ ops' = ops + 1
    /\ UNCHANGED <<rows, disk, nextId, bPc, rPc, ret, dPc, lastUpsert, failedApplied>>
    /\ UNCHANGED otherVars

\* _candle_callback: a record with confirm != 1 is skipped.
StreamSkip ==
    /\ sPc = "loop" /\ sQueue.data # <<>>
    /\ ParseRecord(sQueue.instId, Head(sQueue.data)).confirm # 1
    /\ sQueue' = [sQueue EXCEPT !.data = Tail(@),
                                !.skipped = Append(@, Head(sQueue.data))]
    /\ UNCHANGED <<rows, disk, nextId, sPc, bPc, rPc, ret, dPc, ops, lastUpsert, failedApplied>>
    /\ UNCHANGED otherVars

\* insert_candle, the execute of the upsert statement.
InsertCandleExecute ==
    /\ sPc = "loop" /\ sQueue.data # <<>>
    /\ LET candle == ParseRecord(sQueue.instId, Head(sQueue.data))
           res == UpsertStmt(rows, nextId, candle)
       IN /\ candle.confirm = 1
          /\ rows' = res.rows /\ nextId' = res.nextId
          /\ lastUpsert' = Remember(lastUpsert, <<candle>>, "stream")
          /\ failedApplied' = {x \in failedApplied : Key(x) # Key(candle)}
    /\ sPc' = "commit"
    /\ UNCHANGED <<disk, sQueue, bPc, rPc, ret, dPc, ops>>
    /\ UNCHANGED otherVars

\* insert_candle, the commit; the callback goes on with the next record.
InsertCandleCommit ==
    /\ sPc = "commit"
    /\ disk' = rows
    /\ sQueue' = [sQueue EXCEPT !.data = Tail(@)]
    /\ sPc' = "loop"
    /\ UNCHANGED <<rows, nextId, bPc, rPc, ret, dPc, ops, lastUpsert, failedApplied>>
    /\ UNCHANGED otherVars

\* _candle_callback returns when the message's records are used up.
StreamReturn ==
    /\ sPc = "loop" /\ sQueue.data = <<>>
    /\ sPc' = "idle"
    /\ UNCHANGED <<rows, disk, nextId, sQueue, bPc, rPc, ret, dPc, ops, lastUpsert, failedApplied>>
    /\ UNCHANGED otherVars

\* insert_candles_batch, the executemany running to its end.
BatchExecute(batch) ==
    /\ bPc = "idle" /\ ops < MaxOps
    /\ LET res == UpsertMany(rows, nextId, batch)
       IN rows' = res.rows /\ nextId' = res.nextId
    /\ lastUpsert' = Remember(lastUpsert, batch, "batch")
    /\ failedApplied' = {x \in failedApplied : \A y \in SeqRange(batch) : Key(y) # Key(x)}
    /\ bPc' = "commit"
    /\ ops' = ops + 1
    /\ UNCHANGED <<disk, sPc, sQueue, rPc, ret, dPc>>
    /\ UNCHANGED otherVars

\* insert_candles_batch, the executemany raising a storage error at row k + 1:
\* the k rows before it stay applied on the connection (the method has no
\* rollback) and the error leaves the method before its commit.
BatchFail(batch, k) ==
    /\ bPc = "idle" /\ ops < MaxOps
    /\ k \in 0..(Len(batch) - 1)
    /\ LET res == UpsertMany(rows, nextId, Prefix(batch, k))
       IN rows' = res.rows /\ nextId' = res.nextId
    /\ lastUpsert' = Remember(lastUpsert, Prefix(batch, k), "batch")
    /\ failedApplied' =
           {x \in failedApplied : \A y \in SeqRange(Prefix(batch, k)) : Key(y) # Key(x)}
           \cup AppliedChanges(rows, nextId, Prefix(batch, k))
    /\ ops' = ops + 1
    /\ UNCHANGED <<disk, sPc, sQueue, bPc, rPc, ret, dPc>>
    /\ UNCHANGED otherVars

\* insert_candles_batch, the commit.
BatchCommit ==
    /\ bPc = "commit"
    /\ disk' = rows
    /\ bPc' = "idle"
    /\ UNCHANGED <<rows, nextId, sPc, sQueue, rPc, ret, dPc, ops, lastUpsert, failedApplied>>
    /\ UNCHANGED otherVars

\* delete_old_candles, the DELETE (cutoff = now - days); cursor.rowcount is the
\* number of rows the statement deleted.
DeleteOldExecute(cutoff) ==
    /\ rPc = "idle" /\ ops < MaxOps
    /\ rows' = DeleteOlderThan(rows, cutoff)
    /\ lastUpsert' = Forget(lastUpsert, rows')
    /\ failedApplied' = ForgetBars(failedApplied, rows')
    /\ rPc' = "commit"
    /\ ret' = [cutoff_time |-> cutoff,
               deleted_count |-> Cardinality(rows) - Cardinality(rows')]
    /\ ops' = ops + 1
    /\ UNCHANGED <<disk, nextId, sPc, sQueue, bPc, dPc>>
    /\ UNCHANGED otherVars

\* delete_old_candles, the commit and the return of deleted_count.
DeleteOldCommit ==
    /\ rPc = "commit"
    /\ disk' = rows
    /\ rPc' = "idle" /\ ret' = NoReturn
    /\ UNCHANGED <<rows, nextId, sPc, sQueue, bPc, dPc, ops, lastUpsert, failedApplied>>
    /\ UNCHANGED otherVars

\* delete_candles_by_date, the DELETE.
DeleteByDateExecute(day) ==
    /\ dPc = "idle" /\ ops < MaxOps
    /\ rows' = DeleteOnDay(rows, day)
    /\ lastUpsert' = Forget(lastUpsert, rows')
    /\ failedApplied' = ForgetBars(failedApplied, rows')
    /\ dPc' = "commit"
    /\ ops' = ops + 1
    /\ UNCHANGED <<disk, nextId, sPc, sQueue, bPc, rPc, ret>>
    /\ UNCHANGED otherVars

DeleteByDateCommit ==
    /\ dPc = "commit"
    /\ disk' = rows
    /\ dPc' = "idle"
    /\ UNCHANGED <<rows, nextId, sPc, sQueue, bPc, rPc, ret, ops, lastUpsert, failedApplied>>
    /\ UNCHANGED otherVars

Cutoffs == {MinuteMs, DayMs, DayMs + MinuteMs}
Days == {0, 1}

Next ==
    \/ \E msg \in StreamMessages : StreamDeliver(msg)
    \/ StreamSkip
    \/ InsertCandleExecute
    \/ InsertCandleCommit
    \/ StreamReturn
    \/ \E batch \in Batches : BatchExecute(batch)
    \/ \E batch \in Batches : \E k \in 0..MaxBatch : BatchFail(batch, k)
    \/ BatchCommit
    \/ \E cutoff \in Cutoffs : DeleteOldExecute(cutoff)
    \/ DeleteOldCommit
    \/ \E day \in Days : DeleteByDateExecute(day)
    \/ DeleteByDateCommit

Spec == Init /\ [][Next]_vars

(***************************************************************************)
(* The aggregator (app/services/aggregator.py).  An interval string is the *)
(* sequence of its characters, so that _parse_interval is modelled by what *)
(* it does to them.                                                        *)
(***************************************************************************)
Digits == <<"0", "1", "2", "3", "4", "5", "6", "7", "8", "9">>
IsDigit(c) == \E i \in 1..Len(Digits) : Digits[i] = c
DigitValue(c) == (CHOOSE i \in 1..Len(Digits) : Digits[i] = c) - 1

\* str.lower on the characters an interval uses.
LowerChar(c) ==
    CASE c = "M" -> "m" [] c = "H" -> "h" [] c = "D" -> "d" [] c = "W" -> "w"
      [] c = "I" -> "i" [] c = "N" -> "n" [] OTHER -> c
Lower(str) == [i \in 1..Len(str) |-> LowerChar(str[i])]

EndsWith(str, suffix) ==
    /\ Len(str) >= Len(suffix)
    /\ SubSeq(str, Len(str) - Len(suffix) + 1, Len(str)) = suffix

\* str.rstrip(chars): every trailing character that is in chars is removed.
RECURSIVE RStrip(_, _)
RStrip(str, chars) ==
    IF str # <<>> /\ str[Len(str)] \in chars
    THEN RStrip(SubSeq(str, 1, Len(str) - 1), chars)
    ELSE str

\* int(str) for an unsigned decimal; NoArg where Python raises ValueError.
RECURSIVE DecimalValue(_)
DecimalValue(str) ==
    IF str = <<>> THEN 0
    ELSE 10 * DecimalValue(SubSeq(str, 1, Len(str) - 1)) + DigitValue(str[Len(str)])
ToInt(str) ==
    IF str # <<>> /\ \A i \in 1..Len(str) : IsDigit(str[i]) THEN DecimalValue(str) ELSE NoArg

\* DataAggregator._parse_interval: the minutes of an interval, NoArg for None.
_parse_interval(interval) ==
    LET str == Lower(interval)
        scaled(n, k) == IF n = NoArg THEN NoArg ELSE n * k
    IN IF EndsWith(str, <<"m">>) \/ EndsWith(str, <<"m", "i", "n">>)
       THEN ToInt(RStrip(str, {"m", "i", "n"}))
       ELSE IF EndsWith(str, <<"h">>) \/ EndsWith(str, <<"h", "o", "u", "r">>)
       THEN scaled(ToInt(RStrip(str, {"h", "o", "u", "r"})), 60)
       ELSE IF EndsWith(str, <<"d">>) \/ EndsWith(str, <<"d", "a", "y">>)
       THEN scaled(ToInt(RStrip(str, {"d", "a", "y"})), 24 * 60)
       ELSE IF EndsWith(str, <<"w">>) \/ EndsWith(str, <<"w", "e", "e", "k">>)
       THEN scaled(ToInt(RStrip(str, {"w", "e", "k"})), 7 * 24 * 60)
       ELSE NoArg

RECURSIVE SeqMax(_)
SeqMax(seq) == IF Len(seq) = 1 THEN seq[1] ELSE Max2(Head(seq), SeqMax(Tail(seq)))
RECURSIVE SeqMin(_)
SeqMin(seq) == IF Len(seq) = 1 THEN seq[1] ELSE Min2(Head(seq), SeqMin(Tail(seq)))
RECURSIVE SeqSum(_)
SeqSum(seq) == IF seq = <<>> THEN 0 ELSE Head(seq) + SeqSum(Tail(seq))

\* An aggregate that takes its close from the first candle of the group.
_aggregate_group_close_of_first(candles, period_start) ==
    [timestamp |-> period_start,
     open |-> candles[1].open,
     high |-> SeqMax([i \in 1..Len(candles) |-> candles[i].high]),
     low |-> SeqMin([i \in 1..Len(candles) |-> candles[i].low]),
     close |-> candles[1].close,
     volume |-> SeqSum([i \in 1..Len(candles) |-> candles[i].volume]),
     volume_quote |-> SeqSum([i \in 1..Len(candles) |-> candles[i].volume_quote])]

\* An aggregate that takes its high from the first candle of the group.
_aggregate_group_high_of_first(candles, period_start) ==
    [timestamp |-> period_start,
     open |-> candles[1].open,
     high |-> candles[1].high,
     low |-> SeqMin([i \in 1..Len(candles) |-> candles[i].low]),
     close |-> candles[Len(candles)].close,
     volume |-> SeqSum([i \in 1..Len(candles) |-> candles[i].volume]),
     volume_quote |-> SeqSum([i \in 1..Len(candles) |-> candles[i].volume_quote])]

\* DataAggregator._aggregate_group (candles is never empty where it is called).
_aggregate_group(candles, period_start) ==
    [timestamp |-> period_start,
     open |-> candles[1].open,
     high |-> SeqMax([i \in 1..Len(candles) |-> candles[i].high]),
     low |-> SeqMin([i \in 1..Len(candles) |-> candles[i].low]),
     close |-> candles[Len(candles)].close,
     volume |-> SeqSum([i \in 1..Len(candles) |-> candles[i].volume]),
     volume_quote |-> SeqSum([i \in 1..Len(candles) |-> candles[i].volume_quote])]

\* aggregate_candles, the grouping loop and the last group after it.  A group is
\* closed when a candle of another period arrives, and is stamped with that
\* candle's period_start minus one interval.
RECURSIVE AggregateLoop(_, _, _, _)
AggregateLoop(candles, interval_ms, current_group, aggregated) ==
    IF candles = <<>>
    THEN IF current_group # <<>>
         THEN Append(aggregated,
                     _aggregate_group(current_group,
                         (current_group[1].timestamp \div interval_ms) * interval_ms))
         ELSE aggregated
    ELSE LET candle == Head(candles)
             period_start == (candle.timestamp \div interval_ms) * interval_ms
             newPeriod ==
                 /\ current_group # <<>>
                 /\ current_group[1].timestamp \div interval_ms # period_start \div interval_ms
         IN IF newPeriod
            THEN AggregateLoop(Tail(candles), interval_ms, <<candle>>,
                     Append(aggregated,
                            _aggregate_group(current_group, period_start - interval_ms)))
            ELSE AggregateLoop(Tail(candles), interval_ms,
                               Append(current_group, candle), aggregated)

\* A slice that keeps the first limit aggregates.
FirstSlice(seq, limit) ==
    IF limit >= Len(seq) THEN seq ELSE SubSeq(seq, 1, limit)

\* aggregated[-limit:] (limit >= 0; Python's [-0:] is the whole list).
LastSlice(seq, limit) ==
    IF limit = 0 \/ limit >= Len(seq) THEN seq
    ELSE SubSeq(seq, Len(seq) - limit + 1, Len(seq))

\* A conversion that puts the open where the close belongs.
CandleDictCloseFromOpen(c) ==
    [timestamp |-> c.timestamp, open |-> c.open, high |-> c.high, low |-> c.low,
     close |-> c.open, volume |-> c.volume, volume_quote |-> c.volume_quote]

\* aggregate_candles, the dict built from a stored candle at 1m.
CandleDict(c) ==
    [timestamp |-> c.timestamp, open |-> c.open, high |-> c.high, low |-> c.low,
     close |-> c.close, volume |-> c.volume, volume_quote |-> c.volume_quote]

\* DataAggregator.aggregate_candles: [err, out].
aggregate_candles(tbl, coin_pair, interval, start_time, end_time, limit) ==
    LET interval_minutes == _parse_interval(interval)
    IN IF interval_minutes = NoArg THEN [err |-> "ValueError", out |-> <<>>]
       ELSE IF interval_minutes = 1
       THEN LET candles == get_candles(tbl, coin_pair, start_time, end_time, limit)
            IN [err |-> "", out |-> [i \in 1..Len(candles) |-> CandleDict(candles[i])]]
       ELSE LET candles == get_candles(tbl, coin_pair, start_time, end_time, NoArg)
                aggregated == AggregateLoop(candles, interval_minutes * 60 * 1000,
                                            <<>>, <<>>)
            IN [err |-> "",
                out |-> IF limit # NoArg THEN LastSlice(aggregated, limit) ELSE aggregated]

(***************************************************************************)
(* SpecAgg: aggregate_candles applied to every store of a bounded family.  *)
(* The bar of minute k has its own open and close, and a high and a low    *)
(* that do not grow with k, so first, last, maximum and minimum differ.    *)
(***************************************************************************)
MaxAggMinute == 6   \* SpecAgg stores hold bars at minutes 0..MaxAggMinute

AggPair == "BTC-USDT"
AggBar(k) ==
    CandleData(AggPair, k * MinuteMs, 100 + k, 300 + ((k * 7) % 5), 50 - ((k * 3) % 5),
               200 + k, 1 + (k % 2), 3 + (k % 3), 1)

\* The table holding the bars of the minutes in M, inserted in ascending order.
StoreOfMinutes(M, bar(_)) ==
    {RowOf(bar(k), Cardinality({j \in M : j <= k})) : k \in M}

\* Bars of a rising market: each minute trades above the high of the one before.
TrendBar(k) ==
    CandleData(AggPair, k * MinuteMs, 10 * k + 1, 10 * k + 6, 10 * k, 10 * k + 5,
               k % 2, k % 3, 1)

AggStores ==
    {StoreOfMinutes(M, AggBar) : M \in SUBSET (0..MaxAggMinute)}
    \cup {StoreOfMinutes(M, TrendBar) : M \in SUBSET (0..MaxAggMinute)}

Str(a, b) == <<a, b>>
AggIntervals == {Str("1", "m"), Str("2", "m"), Str("5", "m")}
AggStarts == {NoArg, 0, MinuteMs, 150000}
AggEnds == {NoArg, 5 * MinuteMs - 1, MaxAggMinute * MinuteMs}
AggLimits == {NoArg, 1, 2}

InitAgg ==
    /\ rows \in AggStores /\ disk = rows /\ nextId = Cardinality(rows) + 1
    /\ sPc = "idle" /\ sQueue = NoMessage
    /\ bPc = "idle" /\ rPc = "idle" /\ ret = NoReturn /\ dPc = "idle"
    /\ ops = 0
    /\ lastUpsert = {} /\ failedApplied = {}
    /\ exch = {}
    /\ h = HistOff
    /\ agg = [pc |-> "idle"]
    /\ ws = StreamOff
    /\ fx = FetchOff
    /\ rd = NoRead

AggregateCall(interval, start_time, end_time, limit) ==
    /\ agg.pc = "idle"
    /\ LET res == aggregate_candles(rows, AggPair, interval, start_time, end_time, limit)
       IN agg' = [pc |-> "done", interval |-> interval, start_time |-> start_time,
                  end_time |-> end_time, limit |-> limit, err |-> res.err, out |-> res.out]
    /\ UNCHANGED <<storeVars, taskVars, exch, h, ws, fx, rd>>

NextAgg ==
    \E interval \in AggIntervals : \E start_time \in AggStarts :
        \E end_time \in AggEnds : \E limit \in AggLimits :
            AggregateCall(interval, start_time, end_time, limit)

SpecAgg == InitAgg /\ [][NextAgg]_vars

(***************************************************************************)
(* The historical data service (app/services/historical_data_service.py).  *)
(* Thresholds are percentages, and a ratio is compared with a threshold by *)
(* cross-multiplication, which is exact.                                   *)
(***************************************************************************)
Threshold == 95          \* threshold: float = 0.95
RelaxedThreshold == 80   \* ... else 0.8
SmallTailDivisor == 10   \* (end_time - start_time) * 0.1
DefaultLimit == 100

chunk_size_ms == ChunkSizeHours * 60 * 60 * 1000

\* A window planned without the one-interval buffer.
_calculate_time_range_no_buffer(interval, limit, since, now) ==
    LET interval_minutes == _parse_interval(interval)
        span(n) == now - (n * interval_minutes * 60 * 1000)
    IN IF since # NoArg THEN [err |-> "", start_time |-> since, end_time |-> now]
       ELSE IF interval_minutes = NoArg
       THEN [err |-> "ValueError", start_time |-> 0, end_time |-> now]
       ELSE IF limit # NoArg
       THEN [err |-> "", start_time |-> span(limit), end_time |-> now]
       ELSE [err |-> "", start_time |-> span(DefaultLimit), end_time |-> now]

\* _calculate_time_range: (start_time, end_time), now being datetime.now() in ms.
_calculate_time_range(interval, limit, since, now) ==
    LET interval_minutes == _parse_interval(interval)
        span(n) == now - (n * interval_minutes * 60 * 1000) - (interval_minutes * 60 * 1000)
    IN IF since # NoArg THEN [err |-> "", start_time |-> since, end_time |-> now]
       ELSE IF interval_minutes = NoArg
       THEN [err |-> IF limit # NoArg THEN "ValueError" ELSE "TypeError",
             start_time |-> 0, end_time |-> now]
       ELSE IF limit # NoArg
       THEN [err |-> "", start_time |-> span(limit), end_time |-> now]
       ELSE [err |-> "", start_time |-> span(DefaultLimit), end_time |-> now]

\* numerator / denominator >= pct / 100 for a count numerator >= 0; the division
\* raises for denominator = 0 (the callers guard it) and is <= 0 for a negative one.
RatioAtLeast(numerator, denominator, pct) ==
    denominator > 0 /\ numerator * 100 >= pct * denominator

\* A completeness check without the expected_count == 0 case.
CompleteWithoutBreakpointNoEmptyCase(actual_count, expected_count, threshold) ==
    RatioAtLeast(actual_count, expected_count, threshold)

\* _check_data_completeness, lines 262-267: the check when there is no breakpoint.
CompleteWithoutBreakpoint(actual_count, expected_count, threshold) ==
    IF expected_count = 0 THEN TRUE
    ELSE RatioAtLeast(actual_count, expected_count, threshold)

\* _check_data_completeness, given what its two reads returned: actual_count =
\* len(get_candles(...)) and latest = get_latest_candle(...).
_check_data_completeness(actual_count, latest, start_time, end_time, threshold) ==
    LET expected_count == (end_time - start_time) \div (60 * 1000)
        latest_timestamp == IF latest # <<>> THEN latest[1].timestamp ELSE 0
        needed_start_time == latest_timestamp + 60000
        missing_range_minutes == (end_time - needed_start_time) \div (60 * 1000)
        effective_threshold ==
            IF SmallTailDivisor * (end_time - needed_start_time) > (end_time - start_time)
            THEN threshold ELSE RelaxedThreshold
        actual_usable_count == actual_count + missing_range_minutes
    IN IF latest_timestamp >= start_time /\ latest_timestamp < end_time
       THEN IF needed_start_time > end_time
            THEN [err |-> "", is_complete |-> TRUE, expected_count |-> expected_count,
                  actual_count |-> actual_count]
            ELSE [err |-> IF expected_count = 0 THEN "ZeroDivisionError" ELSE "",
                  is_complete |-> RatioAtLeast(actual_usable_count, expected_count,
                                               effective_threshold),
                  expected_count |-> expected_count, actual_count |-> actual_count]
       ELSE [err |-> "",
             is_complete |-> CompleteWithoutBreakpoint(actual_count, expected_count,
                                                       threshold),
             expected_count |-> expected_count, actual_count |-> actual_count]

\* The resume point as max(start, latest + one minute).
DownloadStartMax(latest, start_time) ==
    IF latest # <<>> THEN Max2(start_time, latest[1].timestamp + 60000) ELSE start_time

\* _download_and_fill_data, lines 298-307: download_start_time.
DownloadStart(latest, start_time) ==
    IF latest # <<>> /\ latest[1].timestamp >= start_time
    THEN latest[1].timestamp + 60000
    ELSE start_time

\* lines 299-304: the early return "nothing to download".
NothingToDownload(latest, start_time, end_time) ==
    /\ latest # <<>> /\ latest[1].timestamp >= start_time
    /\ latest[1].timestamp + 60000 > end_time

\* get_historical_candlestick(since=...) when it succeeds: every candle the
\* exchange has from since on, ascending.
RECURSIVE AscendingCandles(_)
AscendingCandles(M) ==
    IF M = {} THEN <<>>
    ELSE LET k == CHOOSE k \in M : \A j \in M : k <= j
         IN <<ExchangeCandle(k * MinuteMs, 2)>> \o AscendingCandles(M \ {k})
get_historical_candlestick(exchange, since) ==
    AscendingCandles({k \in exchange : k * MinuteMs >= since})

\* lines 333-336: the candles of the fetch that lie in the chunk.
FilterChunk(candlestick_data, chunk_start, chunk_end) ==
    SelectSeq(candlestick_data,
              LAMBDA candle : chunk_start <= candle.timestamp /\ candle.timestamp <= chunk_end)

(***************************************************************************)
(* SpecHist: one get_candlestick_data request on a store drawn from a      *)
(* bounded family, step by step (each step ends at an await), while the    *)
(* stream may write the bar of the last closed or of the current minute.   *)
(***************************************************************************)
MaxHistMinute == 5     \* stores and the exchange hold bars at minutes 0..MaxHistMinute
MaxStreamWrites == 1   \* stream writes during one request

HistPair == "BTC-USDT"
HistBar(k) == BackfillCandle(HistPair, ExchangeCandle(k * MinuteMs, 2))
HistStores == {StoreOfMinutes(M, HistBar) : M \in SUBSET (0..MaxHistMinute)}
\* The first minute after the 24-hour chunk that starts at minute 0: a request
\* made a minute and a half after it walks two chunks.
FarMinute == chunk_size_ms \div MinuteMs + 1
HistExchanges == {0..MaxHistMinute, (0..MaxHistMinute) \ {1},
                  (0..MaxHistMinute) \cup {FarMinute},
                  (0..MaxHistMinute) \cup {FarMinute, FarMinute + 1}}
HistNows == {MaxHistMinute * MinuteMs, MaxHistMinute * MinuteMs + 30000,
             (FarMinute + 1) * MinuteMs + 30000}
HistRequests ==
    {[interval |-> Str("1", "m"), limit |-> NoArg, since |-> t] :
        t \in {0, 30000, 60000, 90000, MaxHistMinute * MinuteMs}}
    \cup {[interval |-> Str("2", "m"), limit |-> 1, since |-> NoArg],
          [interval |-> Str("1", "m"), limit |-> 1, since |-> NoArg],
          [interval |-> Str("1", "m"), limit |-> NoArg, since |-> NoArg]}

HistIdle == [pc |-> "idle"]

InitHist ==
    /\ rows \in HistStores /\ disk = rows /\ nextId = Cardinality(rows) + 1
    /\ exch \in HistExchanges
    /\ \A r \in rows : r.timestamp \div MinuteMs \in exch
    /\ sPc = "idle" /\ sQueue = NoMessage
    /\ bPc = "idle" /\ rPc = "idle" /\ ret = NoReturn /\ dPc = "idle"
    /\ ops = 0
    /\ lastUpsert = {} /\ failedApplied = {}
    /\ h = HistIdle
    /\ agg = [pc |-> "off"]
    /\ ws = StreamOff
    /\ fx = FetchOff
    /\ rd = NoRead

histFrame == <<taskVars, exch, agg, ws, fx, rd>>

\* The request as the route handler received it; NoQuery for a direct call of
\* the service.
NoQuery == [interval |-> <<>>, coinpair |-> <<>>, limit |-> NoArg, since |-> NoArg]

\* get_candlestick_data, step 2: the state of the request once its time range
\* is calculated.
HistPlanned(req, now) ==
    LET range == _calculate_time_range(req.interval, req.limit, req.since, now)
    IN [pc |-> IF range.err = "" THEN "check_candles" ELSE "raised",
        interval |-> req.interval, limit |-> req.limit, since |-> req.since,
        start_time |-> range.start_time, end_time |-> range.end_time,
        actual_count |-> 0, expected_count |-> 0, is_complete |-> FALSE,
        checked_latest |-> NoArg, stream_at_scan |-> 0, stream_at_check |-> 0,
        seen |-> {}, checked |-> FALSE, downloading |-> FALSE,
        lookup_latest |-> NoArg, download_start_time |-> NoArg,
        current_download_start |-> NoArg, chunk_end_time |-> NoArg,
        filtered_data |-> <<>>, fetches |-> <<>>, writes |-> 0,
        chunk_failed |-> FALSE, stream_writes |-> 0, response |-> <<>>,
        now |-> now,
        error |-> range.err, setup_failed |-> "", total_downloaded |-> NoArg,
        outcomes |-> <<>>, run |-> 1, after_first |-> {},
        query |-> NoQuery, status |-> 0, cancel_at |-> ""]

\* get_candlestick_data called directly.
HistRequest(req, now) ==
    /\ h.pc = "idle"
    /\ \A k \in exch : k * MinuteMs <= now
    /\ h' = HistPlanned(req, now)
    /\ UNCHANGED <<storeVars, histFrame>>

\* str.upper on the characters a pair uses.
UpperChar(c) ==
    CASE c = "b" -> "B" [] c = "t" -> "T" [] c = "c" -> "C" [] c = "u" -> "U"
      [] c = "s" -> "S" [] c = "d" -> "D" [] OTHER -> c
Upper(str) == [i \in 1..Len(str) |-> UpperChar(str[i])]
Contains(str, c) == \E i \in 1..Len(str) : str[i] = c
RECURSIVE Joined(_)
Joined(str) == IF str = <<>> THEN "" ELSE Head(str) \o Joined(Tail(str))

\* validate_interval: the list of the supported intervals.
valid_intervals ==
    {<<"1", "m">>, <<"5", "m">>, <<"1", "5", "m">>, <<"3", "0", "m">>, <<"1", "h">>,
     <<"2", "h">>, <<"4", "h">>, <<"6", "h">>, <<"1", "2", "h">>, <<"1", "d">>,
     <<"1", "w">>}
validate_interval(interval) ==
    IF interval \notin valid_intervals THEN [err |-> "ValueError", value |-> <<>>]
    ELSE [err |-> "", value |-> interval]

\* validate_coinpair: a pair without '/' is refused, any other is upper-cased.
validate_coinpair(coinpair) ==
    IF ~Contains(coinpair, "/") THEN [err |-> "ValueError", value |-> <<>>]
    ELSE [err |-> "", value |-> Upper(coinpair)]

\* convert_coinpair_format: coinpair.replace('/', '-').
convert_coinpair_format(coinpair) ==
    Joined([i \in 1..Len(coinpair) |-> IF coinpair[i] = "/" THEN "-" ELSE coinpair[i]])

\* limit: int = Query(None, ge=1, le=1000); since: int = Query(None).
LimitGe == 1
LimitLe == 1000
QueryParamsValid(q) == q.limit = NoArg \/ (LimitGe <= q.limit /\ q.limit <= LimitLe)

ApiQueries ==
    LET ApiPair == <<"B", "T", "C", "/", "U", "S", "D", "T">>
        ApiPairLower == <<"b", "t", "c", "/", "u", "s", "d", "t">>
        ApiPairNoSlash == <<"I", "N", "V", "A", "L", "I", "D">>
    IN
    {[interval |-> Str("5", "m"), coinpair |-> ApiPairLower, limit |-> 2, since |-> 60000],
     [interval |-> Str("1", "m"), coinpair |-> ApiPair, limit |-> NoArg,
      since |-> 0 - MinuteMs],
     [interval |-> Str("2", "m"), coinpair |-> ApiPair, limit |-> 1, since |-> NoArg],
     [interval |-> Str("1", "m"), coinpair |-> ApiPairNoSlash, limit |-> 1, since |-> NoArg],
     [interval |-> Str("1", "m"), coinpair |-> ApiPair, limit |-> 0, since |-> 0],
     [interval |-> Str("1", "m"), coinpair |-> ApiPair, limit |-> LimitLe + 1, since |-> 0]}

\* What get_historical_candlestick does with a query before the service runs:
\* the status it answers with at once, or 0 and the arguments it passes on.
HandlerEntry(q) ==
    LET validated_interval == validate_interval(q.interval)
        validated_coinpair == validate_coinpair(q.coinpair)
    IN IF ~QueryParamsValid(q) THEN [status |-> 422, req |-> NoQuery, db_coinpair |-> ""]
       ELSE IF validated_interval.err # "" \/ validated_coinpair.err # ""
       THEN [status |-> 400, req |-> NoQuery, db_coinpair |-> ""]
       ELSE [status |-> 0,
             req |-> [interval |-> validated_interval.value,
                      limit |-> IF q.limit = NoArg THEN DefaultLimit ELSE q.limit,
                      since |-> q.since],
             db_coinpair |-> convert_coinpair_format(validated_coinpair.value)]

\* The state of a request the handler has refused: the service has no arguments
\* of it, its fields are those of a request that has not taken a step.
HistRejected(q, status, now) ==
    [HistPlanned([interval |-> Str("1", "m"), limit |-> NoArg, since |-> 0], now)
        EXCEPT !.pc = "rejected", !.query = q, !.status = status]

\* GET /candlestick/historical: the query is refused, or get_candlestick_data
\* starts with the validated arguments.
HistApiRequest(q, now) ==
    /\ h.pc = "idle"
    /\ \A k \in exch : k * MinuteMs <= now
    /\ LET entry == HandlerEntry(q)
       IN IF entry.status # 0
          THEN h' = HistRejected(q, entry.status, now)
          ELSE /\ entry.db_coinpair = HistPair
               /\ h' = [HistPlanned(entry.req, now) EXCEPT !.query = q]
    /\ UNCHANGED <<storeVars, histFrame>>

\* _check_data_completeness, the first read: get_candles over the window.
HistCheckCandles ==
    /\ h.pc = "check_candles"
    /\ h' = [h EXCEPT !.pc = "check_latest",
                      !.actual_count = Len(get_candles(rows, HistPair, h.start_time,
                                                       h.end_time, NoArg)),
                      !.stream_at_scan = h.stream_writes]
    /\ UNCHANGED <<storeVars, histFrame>>

\* _check_data_completeness, the second read and the verdict; get_candlestick_data
\* then downloads or goes on to aggregate.
HistCheckLatest ==
    /\ h.pc = "check_latest"
    /\ LET latest == get_latest_candle(rows, HistPair)
           res == _check_data_completeness(h.actual_count, latest, h.start_time,
                                           h.end_time, Threshold)
       IN h' = [h EXCEPT !.pc = IF res.err # "" THEN "raised"
                                ELSE IF res.is_complete THEN "aggregate"
                                ELSE "download",
                         !.is_complete = res.is_complete, !.error = res.err,
                         !.expected_count = res.expected_count,
                         !.checked_latest = IF latest = <<>> THEN NoArg
                                            ELSE latest[1].timestamp,
                         !.stream_at_check = h.stream_writes, !.checked = TRUE,
                         !.seen = {r.timestamp : r \in {q \in rows : q.coin_pair = HistPair}}]
    /\ UNCHANGED <<storeVars, histFrame>>

\* Where _download_and_fill_data returns to: get_candlestick_data (which goes on
\* to aggregate) or the direct caller of a second run.
DownloadReturns(run) == IF run = 1 THEN "aggregate" ELSE "rerun_done"

\* The outer except of _download_and_fill_data (lines 376-381): its last log line
\* formats total_downloaded, which is bound only from line 314 on.
OuterExcept(total_downloaded) ==
    IF total_downloaded = NoArg THEN "UnboundLocalError" ELSE ""

\* _download_and_fill_data up to its loop: the lookup of the latest stored candle
\* and the resume point.
HistDownloadStart ==
    /\ h.pc = "download"
    /\ LET latest == get_latest_candle(rows, HistPair)
           download_start_time == DownloadStart(latest, h.start_time)
       IN h' = [h EXCEPT !.pc = IF NothingToDownload(latest, h.start_time, h.end_time)
                                THEN DownloadReturns(h.run) ELSE "loop",
                         !.total_downloaded =
                             IF NothingToDownload(latest, h.start_time, h.end_time)
                             THEN @ ELSE 0,
                         !.downloading = TRUE,
                         !.lookup_latest = IF latest = <<>> THEN NoArg
                                           ELSE latest[1].timestamp,
                         !.download_start_time = download_start_time,
                         !.current_download_start = download_start_time]
    /\ UNCHANGED <<storeVars, histFrame>>

\* _download_and_fill_data fails before its loop: ExchangeService(exchange_type)
\* raises (line 295) or get_latest_candle raises (line 298).  The outer except
\* handles it, and what its own body raises goes to the caller.
HistDownloadSetupFail(step) ==
    /\ h.pc = "download"
    /\ LET err == OuterExcept(h.total_downloaded)
       IN h' = [h EXCEPT !.pc = IF err = "" THEN DownloadReturns(h.run) ELSE "raised",
                         !.error = err, !.setup_failed = step]
    /\ UNCHANGED <<storeVars, histFrame>>

\* One turn of the chunk loop whose fetch succeeds: the chunk's end, the fetch,
\* the filter; with nothing left after the filter the loop moves on.
HistFetch ==
    /\ h.pc = "loop" /\ h.current_download_start <= h.end_time
    /\ LET chunk_end_time == Min2(h.current_download_start + chunk_size_ms, h.end_time)
           candlestick_data == get_historical_candlestick(exch, h.current_download_start)
           filtered_data == FilterChunk(candlestick_data, h.current_download_start,
                                        chunk_end_time)
       IN h' = [h EXCEPT !.fetches = Append(@, h.current_download_start),
                         !.chunk_end_time = chunk_end_time,
                         !.filtered_data = filtered_data,
                         !.outcomes = IF filtered_data # <<>> THEN @
                                      ELSE Append(@, "empty"),
                         !.pc = IF filtered_data # <<>> THEN "write" ELSE "loop",
                         !.current_download_start =
                             IF filtered_data # <<>> THEN @ ELSE chunk_end_time + 60000]
    /\ UNCHANGED <<storeVars, histFrame>>

\* A chunk loop that gives the download up when a fetch raises.
HistFetchFailAbandons ==
    /\ h.pc = "loop" /\ h.current_download_start <= h.end_time
    /\ LET chunk_end_time == Min2(h.current_download_start + chunk_size_ms, h.end_time)
       IN h' = [h EXCEPT !.fetches = Append(@, h.current_download_start),
                         !.chunk_end_time = chunk_end_time,
                         !.chunk_failed = TRUE,
                         !.outcomes = Append(@, "fetch_failed"),
                         !.pc = DownloadReturns(h.run)]
    /\ UNCHANGED <<storeVars, histFrame>>

\* One turn of the chunk loop whose fetch raises: logged, next chunk.
HistFetchFail ==
    /\ h.pc = "loop" /\ h.current_download_start <= h.end_time
    /\ LET chunk_end_time == Min2(h.current_download_start + chunk_size_ms, h.end_time)
       IN h' = [h EXCEPT !.fetches = Append(@, h.current_download_start),
                         !.chunk_end_time = chunk_end_time,
                         !.chunk_failed = TRUE,
                         !.outcomes = Append(@, "fetch_failed"),
                         !.current_download_start = chunk_end_time + 60000]
    /\ UNCHANGED <<storeVars, histFrame>>

\* A write whose commit is left to the end of the walk.
HistWriteNoCommit ==
    /\ h.pc = "write"
    /\ LET candles_to_store ==
               [i \in 1..Len(h.filtered_data) |->
                    BackfillCandle(HistPair, h.filtered_data[i])]
           res == UpsertMany(rows, nextId, candles_to_store)
       IN rows' = res.rows /\ nextId' = res.nextId /\ disk' = disk
    /\ h' = [h EXCEPT !.pc = "loop", !.writes = @ + 1, !.filtered_data = <<>>,
                      !.total_downloaded = @ + Len(h.filtered_data),
                      !.outcomes = Append(@, "written"),
                      !.current_download_start = h.chunk_end_time + 60000]
    /\ UNCHANGED histFrame

\* The chunk's bars are converted and written with insert_candles_batch.
HistWrite ==
    /\ h.pc = "write"
    /\ LET candles_to_store ==
               [i \in 1..Len(h.filtered_data) |->
                    BackfillCandle(HistPair, h.filtered_data[i])]
           res == UpsertMany(rows, nextId, candles_to_store)
       IN rows' = res.rows /\ nextId' = res.nextId /\ disk' = res.rows
    /\ h' = [h EXCEPT !.pc = "loop", !.writes = @ + 1, !.filtered_data = <<>>,
                      !.total_downloaded = @ + Len(h.filtered_data),
                      !.outcomes = Append(@, "written"),
                      !.current_download_start = h.chunk_end_time + 60000]
    /\ UNCHANGED histFrame

\* insert_candles_batch raises at row k + 1 of the chunk: the k rows before it
\* stay applied on the connection, nothing is committed, and the chunk loop
\* logs the error and moves on to the next chunk.
HistWriteFail(k) ==
    /\ h.pc = "write"
    /\ k \in 0..(Len(h.filtered_data) - 1)
    /\ LET candles_to_store ==
               [i \in 1..k |-> BackfillCandle(HistPair, h.filtered_data[i])]
           res == UpsertMany(rows, nextId, candles_to_store)
       IN rows' = res.rows /\ nextId' = res.nextId
    /\ h' = [h EXCEPT !.pc = "loop", !.chunk_failed = TRUE, !.filtered_data = <<>>,
                      !.outcomes = Append(@, "write_failed"),
                      !.current_download_start = h.chunk_end_time + 60000]
    /\ UNCHANGED <<disk, histFrame>>

\* The task of the request is cancelled while _download_and_fill_data waits at
\* an await: CancelledError is no Exception, neither except clause of the
\* function catches it, and it leaves the function from that await.  The
\* statement handed to the connection's thread is executed there all the same:
\* at the executemany the rows are applied and no commit follows, at the commit
\* the commit is done.
HistCancel(at) ==
    /\ h.pc \in {"download", "write"}
    /\ h.run = 1
    /\ \/ /\ at = "get_latest_candle" /\ h.pc = "download"
          /\ UNCHANGED storeVars
       \/ /\ at \in {"executemany", "commit"} /\ h.pc = "write"
          /\ LET candles_to_store ==
                     [i \in 1..Len(h.filtered_data) |->
                          BackfillCandle(HistPair, h.filtered_data[i])]
                 res == UpsertMany(rows, nextId, candles_to_store)
             IN /\ rows' = res.rows /\ nextId' = res.nextId
                /\ disk' = IF at = "commit" THEN res.rows ELSE disk
    /\ h' = [h EXCEPT !.pc = "cancelled", !.cancel_at = at]
    /\ UNCHANGED histFrame

\* The loop ends; get_candlestick_data re-reads the completeness for its log.
HistLoopExit ==
    /\ h.pc = "loop" /\ h.current_download_start > h.end_time
    /\ h' = [h EXCEPT !.pc = DownloadReturns(h.run)]
    /\ UNCHANGED <<storeVars, histFrame>>

\* Steps 5 and 6: aggregate_candles over the window is the response.
HistAggregate ==
    /\ h.pc = "aggregate"
    /\ LET res == aggregate_candles(rows, HistPair, h.interval, h.start_time,
                                    h.end_time, h.limit)
       IN h' = [h EXCEPT !.pc = IF res.err = "" THEN "done" ELSE "raised",
                         !.error = res.err, !.response = res.out]
    /\ UNCHANGED <<storeVars, histFrame>>

\* After a request whose backfill ran without a failure, the backfill is run
\* again for the same window: _download_and_fill_data(pair, start, end) called
\* directly, the exchange unchanged and no other writer active.
HistRerun ==
    /\ h.pc = "done" /\ h.run = 1 /\ h.downloading /\ ~h.chunk_failed
    /\ h' = [h EXCEPT !.pc = "download", !.run = 2, !.after_first = rows,
                      !.downloading = FALSE,
                      !.lookup_latest = NoArg, !.download_start_time = NoArg,
                      !.current_download_start = NoArg, !.chunk_end_time = NoArg,
                      !.total_downloaded = NoArg, !.fetches = <<>>, !.outcomes = <<>>,
                      !.writes = 0]
    /\ UNCHANGED <<storeVars, histFrame>>

\* The stream callback writes the confirmed bar of the minute that closed last
\* before end_time, or of the minute end_time lies in (it closes while the
\* request runs), between two steps of the request.
HistStreamInsert(back) ==
    /\ h.pc \in {"check_candles", "check_latest", "download", "loop", "write", "aggregate"}
    /\ h.run = 1
    /\ h.stream_writes < MaxStreamWrites
    /\ LET ts == (h.end_time \div MinuteMs) * MinuteMs - back * MinuteMs
           candle == ParseRecord(HistPair, StreamRecord(ts, 2, 1))
           res == UpsertStmt(rows, nextId, candle)
       IN /\ ts >= 0
          /\ rows' = res.rows /\ nextId' = res.nextId /\ disk' = res.rows
    /\ h' = [h EXCEPT !.stream_writes = @ + 1]
    /\ UNCHANGED histFrame

NextHist ==
    \/ \E req \in HistRequests : \E now \in HistNows : HistRequest(req, now)
    \/ \E q \in ApiQueries : HistApiRequest(q, MaxHistMinute * MinuteMs)
    \/ HistCheckCandles
    \/ HistCheckLatest
    \/ HistDownloadStart
    \/ \E step \in {"ExchangeService", "get_latest_candle"} : HistDownloadSetupFail(step)
    \/ HistFetch
    \/ HistFetchFail
    \/ HistWrite
    \/ \E k \in 0..MaxHistMinute : HistWriteFail(k)
    \/ HistLoopExit
    \/ HistAggregate
    \/ HistRerun
    \/ \E back \in {0, 1} : HistStreamInsert(back)
    \/ \E at \in {"get_latest_candle", "executemany", "commit"} : HistCancel(at)

SpecHist == InitHist /\ [][NextHist]_vars

(***************************************************************************)
(* Claims on the store (checked under Spec).                               *)
(***************************************************************************)
UniqueKey(tbl) == \A r \in tbl : \A q \in tbl : Key(r) = Key(q) => r = q

\* C2: in every reachable state, whatever the interleaving of insert_candle,
\* insert_candles_batch, the retention delete and the date purge, the table holds
\* at most one row per (coin_pair, timestamp), on the connection and on disk.
C2_AtMostOneBarPerKey == UniqueKey(rows) /\ UniqueKey(disk)

\* An upsert met a committed row of its key and rewrote it in place.
C2_Witness ==
    \E r \in disk : \E q \in rows : r.id = q.id /\ Key(r) = Key(q) /\ BarOf(r) # BarOf(q)

\* C3: once no upsert is waiting for its commit, a scan of one key returns exactly
\* one bar, and all its fields are those of the upsert statement executed last on
\* that key: never a mixture of two writers' fields.
C3_LastUpsertWins ==
    (sPc # "commit" /\ bPc # "commit") =>
        \A x \in lastUpsert :
            LET got == get_candles(rows, x.bar.coin_pair, x.bar.timestamp,
                                   x.bar.timestamp, NoArg)
            IN Len(got) = 1 /\ BarOf(got[1]) = x.bar

\* The stream and the backfill both wrote one key, the later one a bar that differs
\* from the earlier, and both have committed.
C3_Witness ==
    /\ sPc # "commit" /\ bPc # "commit" /\ rows = disk
    /\ \E x \in lastUpsert :
          /\ {x.by} \cup x.over = {"stream", "batch"}
          /\ x.by \notin x.over
          /\ \E r \in disk : BarOf(r) = x.bar

\* C4: a row that a failed insert_candles_batch applied before its error is never
\* visible to a later scan and never becomes committed.
C4_FailedBatchLeavesNothing ==
    \A b \in failedApplied :
        /\ ~\E r \in disk : BarOf(r) = b
        /\ ~\E i \in 1..Len(get_candles(rows, b.coin_pair, b.timestamp, b.timestamp, NoArg)) :
               BarOf(get_candles(rows, b.coin_pair, b.timestamp, b.timestamp, NoArg)[i]) = b

(***************************************************************************)
(* Claims on the aggregator (checked under SpecAgg).                       *)
(***************************************************************************)
\* The stored bars of the call's window, and their buckets floor(timestamp / W_ms).
AggWindow ==
    {r \in rows : /\ r.coin_pair = AggPair
                  /\ (agg.start_time # NoArg => r.timestamp >= agg.start_time)
                  /\ (agg.end_time # NoArg => r.timestamp <= agg.end_time)}
AggWms == _parse_interval(agg.interval) * MinuteMs
AggBuckets == {r.timestamp \div AggWms : r \in AggWindow}
BucketBars(k) == {r \in AggWindow : r.timestamp \div AggWms = k}
Earliest(S) == CHOOSE r \in S : \A q \in S : r.timestamp <= q.timestamp
Latest(S) == CHOOSE r \in S : \A q \in S : r.timestamp >= q.timestamp
RECURSIVE SumVolume(_)
SumVolume(S) ==
    IF S = {} THEN 0 ELSE LET r == CHOOSE r \in S : TRUE IN r.volume + SumVolume(S \ {r})
RECURSIVE SumVolumeQuote(_)
SumVolumeQuote(S) ==
    IF S = {} THEN 0
    ELSE LET r == CHOOSE r \in S : TRUE IN r.volume_quote + SumVolumeQuote(S \ {r})
\* The bucket of the i-th returned bar: the returned bars are the last Len(out)
\* non-empty buckets, ascending.
BucketAt(i) ==
    CHOOSE k \in AggBuckets :
        Cardinality({j \in AggBuckets : j > k}) = Len(agg.out) - i
AggCoarse == agg.pc = "done" /\ agg.err = "" /\ _parse_interval(agg.interval) # 1

\* C5: for an interval other than 1m, each returned bar has the open of its
\* bucket's earliest bar, the close of its latest, the maximum high, the minimum
\* low and the sums of volume and volume_quote of the stored bars of the bucket.
C5_AggregateFoldsBucket ==
    AggCoarse =>
        /\ Len(agg.out) <= Cardinality(AggBuckets)
        /\ \A i \in 1..Len(agg.out) :
              LET S == BucketBars(BucketAt(i))
                  a == agg.out[i]
              IN /\ a.open = Earliest(S).open
                 /\ a.close = Latest(S).close
                 /\ \A r \in S : a.high >= r.high /\ a.low <= r.low
                 /\ \E r \in S : a.high = r.high
                 /\ \E r \in S : a.low = r.low
                 /\ a.volume = SumVolume(S)
                 /\ a.volume_quote = SumVolumeQuote(S)

\* Two buckets returned, one of them with a minute missing inside it and one
\* whose highest bar is neither its first nor its last.
C5_Witness ==
    /\ AggCoarse /\ Len(agg.out) = 2
    /\ \E i \in 1..2 : LET S == BucketBars(BucketAt(i))
                       IN /\ Cardinality(S) >= 2
                          /\ Latest(S).timestamp - Earliest(S).timestamp
                                 >= Cardinality(S) * MinuteMs
    /\ \E i \in 1..2 : LET S == BucketBars(BucketAt(i))
                       IN /\ agg.out[i].high > Earliest(S).high
                          /\ agg.out[i].high > Latest(S).high

\* C6: every bar returned for an interval other than 1m carries the timestamp
\* k * W_ms of its bucket k, also when whole buckets between two non-empty
\* buckets hold no bar.
C6_AggregateTimestampIsBucketStart ==
    AggCoarse =>
        \A i \in 1..Len(agg.out) : agg.out[i].timestamp = BucketAt(i) * AggWms

\* C21: for an interval other than 1m the bars come in ascending order of their
\* buckets, and with a limit they are exactly the last min(limit, n) of the n
\* aggregates of the window (all n without a limit).
C21_LastLimitAggregatesAscending ==
    AggCoarse =>
        LET n == Cardinality(AggBuckets)
        IN /\ Len(agg.out) = IF agg.limit = NoArg THEN n ELSE Min2(agg.limit, n)
           /\ \A i \in 1..Len(agg.out) :
                  agg.out[i].open = Earliest(BucketBars(BucketAt(i))).open
           /\ \A i \in 1..(Len(agg.out) - 1) :
                  agg.out[i].timestamp < agg.out[i + 1].timestamp

\* Three aggregates in the window, a limit of two: the first is left out.
C21_Witness ==
    /\ AggCoarse /\ agg.limit = 2 /\ Cardinality(AggBuckets) = 3
    /\ Len(agg.out) = 2
    /\ agg.out[1].open > Earliest(AggWindow).open

AggFine == agg.pc = "done" /\ agg.err = "" /\ _parse_interval(agg.interval) = 1
\* The stored bar of the window that has i - 1 bars of the window before it.
WindowBar(i) ==
    CHOOSE r \in AggWindow :
        Cardinality({q \in AggWindow : q.timestamp < r.timestamp}) = i - 1

\* C22: at 1m the call returns, in ascending order of timestamp, exactly the
\* stored bars of the window with their stored values; with a limit it returns
\* what the scan returns for that window and limit, the first min(limit, n).
C22_OneMinuteIsIdentity ==
    AggFine =>
        LET n == Cardinality(AggWindow)
        IN /\ Len(agg.out) = IF agg.limit = NoArg THEN n ELSE Min2(agg.limit, n)
           /\ \A i \in 1..Len(agg.out) :
                  LET r == WindowBar(i)
                      a == agg.out[i]
                  IN /\ a.timestamp = r.timestamp
                     /\ a.open = r.open /\ a.high = r.high /\ a.low = r.low
                     /\ a.close = r.close /\ a.volume = r.volume
                     /\ a.volume_quote = r.volume_quote

\* A window that cuts bars off at both ends, returned whole.
C22_Witness ==
    /\ AggFine /\ agg.limit = NoArg /\ Len(agg.out) >= 3
    /\ Cardinality(AggWindow) + 2 <= Cardinality(rows)
    /\ \E r \in rows : r.timestamp < agg.start_time
    /\ \E r \in rows : r.timestamp > agg.end_time

\* low <= open <= high, low <= close <= high, volume >= 0.
SaneBar(b) ==
    /\ b.high >= b.low /\ b.high >= b.open /\ b.high >= b.close
    /\ b.low <= b.open /\ b.low <= b.close /\ b.volume >= 0

\* C24: when every stored one-minute bar has low <= open, close <= high and
\* volume >= 0, so has every bar returned, at 1m and at the coarser intervals.
C24_ReturnedBarsAreSane ==
    (agg.pc = "done" /\ agg.err = "" /\ \A r \in rows : SaneBar(r)) =>
        \A i \in 1..Len(agg.out) : SaneBar(agg.out[i])

\* An aggregate of a rising bucket: its close lies above the high of its first
\* bar and its open below the low of its last.
C24_Witness ==
    /\ AggCoarse /\ Len(agg.out) >= 1
    /\ \E i \in 1..Len(agg.out) :
          LET S == BucketBars(BucketAt(i))
          IN /\ agg.out[i].close > Earliest(S).high
             /\ agg.out[i].open < Latest(S).low

(***************************************************************************)
(* Claims on the historical data service (checked under SpecHist).         *)
(***************************************************************************)
HistChecked == h.pc # "idle" /\ h.checked
HistWindow == h.end_time - h.start_time
HistStored(ts) == \E r \in rows : r.coin_pair = HistPair /\ r.timestamp = ts
\* Both reads of the check saw the same store.
HistCheckSawOneStore == h.stream_at_scan = h.stream_at_check
HistSlots == {k * MinuteMs : k \in 0..(MaxHistMinute + 1)}
SeenInWindow == {ts \in h.seen : h.start_time <= ts /\ ts <= h.end_time}
LatestInsideWindow ==
    h.checked_latest # NoArg /\ h.start_time <= h.checked_latest
                             /\ h.checked_latest < h.end_time

\* C1: when a request over a window of at least one minute returns and no chunk
\* of its download failed, the store holds a bar for every minute-aligned
\* timestamp of [start, end] that the exchange has.
C1_WindowFilledOnReturn ==
    (h.pc = "done" /\ ~h.chunk_failed /\ HistWindow >= MinuteMs) =>
        \A k \in exch :
            (h.start_time <= k * MinuteMs /\ k * MinuteMs <= h.end_time) =>
                HistStored(k * MinuteMs)

\* The case of C7: the latest stored bar is inside the window, every minute from
\* start up to it is stored, and at least two minutes after it up to end are not.
TailGapCase ==
    /\ HistCheckSawOneStore /\ LatestInsideWindow /\ h.start_time >= 0
    /\ \A ts \in HistSlots : (h.start_time <= ts /\ ts <= h.checked_latest) => ts \in h.seen
    /\ Cardinality({ts \in HistSlots : h.checked_latest < ts /\ ts <= h.end_time}) >= 2

\* C7: in the tail gap case the coverage check reports the window not complete,
\* and the request fetches from latest.ts + 60000 before it aggregates.
C7_TailGapIsBackfilled ==
    (HistChecked /\ TailGapCase) =>
        /\ ~h.is_complete
        /\ h.pc = "done" => (h.fetches # <<>> /\ h.fetches[1] = h.checked_latest + 60000)

\* C8: with the latest stored bar inside the window and latest.ts + 60000 <= end,
\* the check reports complete exactly when actual / expected >= theta, theta being
\* 0.80 when the missing tail is at most a tenth of the window and 0.95 otherwise.
C8_CompleteIffRatioAtLeastTheta ==
    (HistChecked /\ HistCheckSawOneStore /\ LatestInsideWindow
       /\ h.checked_latest + 60000 <= h.end_time) =>
        LET actual == Cardinality(SeenInWindow)
            expected == HistWindow \div 60000
            theta == IF 10 * (h.end_time - (h.checked_latest + 60000)) <= HistWindow
                     THEN 80 ELSE 95
        IN h.is_complete <=> (expected > 0 /\ actual * 100 >= theta * expected)

\* C9: a window shorter than one minute (expected = 0, start <= end) is reported
\* complete whatever the store holds, and the request then fetches nothing from
\* the exchange and writes nothing to the store.
C9_EmptyWindowIsComplete ==
    (HistChecked /\ 0 <= HistWindow /\ HistWindow < MinuteMs) =>
        h.is_complete /\ h.fetches = <<>> /\ h.writes = 0

\* An empty-window request that has returned, the latest stored bar inside the window.
C9_Witness ==
    /\ h.pc = "done" /\ 0 <= HistWindow /\ HistWindow < MinuteMs
    /\ LatestInsideWindow /\ h.is_complete /\ h.fetches = <<>>

\* The download looked up a latest bar before end, or none.
ResumeCase == h.pc # "idle" /\ h.downloading
                /\ h.lookup_latest < h.end_time

\* C10 as stated: resume_from is start without a stored bar and
\* max(start, latest.ts + 60000) with one; no fetch when resume_from > end.
C10_ResumeFromMax ==
    ResumeCase =>
        /\ h.download_start_time =
              IF h.lookup_latest = NoArg THEN h.start_time
              ELSE Max2(h.start_time, h.lookup_latest + 60000)
        /\ h.download_start_time > h.end_time => h.fetches = <<>>

\* C10, amended: resume_from is latest.ts + 60000 when the latest bar is at or
\* after start, and start when there is no bar or the latest bar is before start
\* (also in (start - 60000, start)); no fetch when resume_from > end, and the
\* first fetch is from resume_from.
C10_ResumeFromLatestInWindow ==
    ResumeCase =>
        /\ h.download_start_time =
              IF h.lookup_latest # NoArg /\ h.lookup_latest >= h.start_time
              THEN h.lookup_latest + 60000 ELSE h.start_time
        /\ h.download_start_time > h.end_time => h.fetches = <<>>
        /\ h.fetches # <<>> => h.fetches[1] = h.download_start_time

\* The latest bar is less than a minute before start, and the download fetched from start.
C10_Witness ==
    /\ ResumeCase /\ h.lookup_latest # NoArg
    /\ h.start_time - 60000 < h.lookup_latest /\ h.lookup_latest < h.start_time
    /\ h.fetches # <<>> /\ h.fetches[1] = h.start_time

\* C11: no failure inside the backfill (the exchange client's construction, the
\* latest lookup, a chunk's fetch or its batch upsert) makes the request raise.
C11_BackfillNeverRaises ==
    (h.pc # "idle" /\ (h.setup_failed # "" \/ h.chunk_failed)) => h.pc # "raised"

\* The download has returned to its caller.
DownloadReturned == h.pc \in {"aggregate", "done", "rerun_done"} /\ h.downloading
ChunkEndOf(i) == Min2(h.fetches[i] + chunk_size_ms, h.end_time)
ChunkFailed(i) == h.outcomes[i] \in {"fetch_failed", "write_failed"}

C13_SecondBackfillChangesNothing ==
    (h.pc = "rerun_done" /\ ~h.chunk_failed) =>
        rows = h.after_first

\* The interval of the request in minutes.
HistWmin == _parse_interval(h.interval)

WindowMinutes ==
    {k \in (h.start_time \div MinuteMs)..(h.end_time \div MinuteMs) :
        h.start_time <= k * MinuteMs /\ k * MinuteMs <= h.end_time}

\* C20: a request with a limit L and no since, answered from a store that holds
\* every one-minute bar of the planned window, returns exactly L bars, the last
\* of them the bucket of the newest stored minute of the window.
C20_LimitReturnsLatestBuckets ==
    (h.pc = "done" /\ h.since = NoArg /\ h.limit # NoArg
       /\ \A k \in WindowMinutes : HistStored(k * MinuteMs)) =>
        /\ Len(h.response) = h.limit
        /\ h.response[Len(h.response)].timestamp =
               (((h.end_time \div MinuteMs) * MinuteMs) \div (HistWmin * MinuteMs))
                   * (HistWmin * MinuteMs)

(***************************************************************************)
(* Claims about the stream callback.                                       *)
(***************************************************************************)
\* The confirm field a record carries: absent when the record has fewer than
\* nine elements.
Unconfirmed(rec) == Len(rec) < 9 \/ rec[9] # 1

\* The callback's step on the record at the head of its message.
StreamStep == sPc' # sPc \/ sQueue' # sQueue

\* C14: the callback's step on a record with confirm != 1 (or too short to
\* carry a confirm) leaves the store as it is and goes on to the next record,
\* and every bar the stream path has upserted has confirm = 1.
C14_UnconfirmedNeverWritten ==
    /\ [][(sPc = "loop" /\ sQueue.data # <<>> /\ Unconfirmed(Head(sQueue.data))
             /\ StreamStep)
            => (UNCHANGED <<rows, disk, nextId>> /\ sPc' = "loop"
                  /\ sQueue'.data = Tail(sQueue.data))]_vars
    /\ [](\A x \in lastUpsert : x.by = "stream" => x.bar.confirm = 1)

\* A message of two unconfirmed records, one of them without a confirm field,
\* has been processed after a confirmed bar was upserted from the stream.
C14_Witness ==
    /\ sPc = "loop" /\ sQueue.data = <<>> /\ Len(sQueue.skipped) = 2
    /\ \E i \in 1..2 : Len(sQueue.skipped[i]) < 9
    /\ \E x \in lastUpsert : x.by = "stream"

(***************************************************************************)
(* SpecRet: the retention delete and the date purge on a store that holds  *)
(* bars of both pairs.                                                     *)
(***************************************************************************)
RetBars ==
    <<BackfillCandle("BTC-USDT", ExchangeCandle(0, 2)),
      BackfillCandle("ETH-USDT", ExchangeCandle(0, 2)),
      BackfillCandle("BTC-USDT", ExchangeCandle(MinuteMs, 2)),
      BackfillCandle("ETH-USDT", ExchangeCandle(MinuteMs, 2)),
      BackfillCandle("BTC-USDT", ExchangeCandle(DayMs, 2)),
      BackfillCandle("ETH-USDT", ExchangeCandle(DayMs, 2))>>
RetStores ==
    {{RowOf(RetBars[i], Cardinality({j \in I : j <= i})) : i \in I} :
        I \in SUBSET (1..Len(RetBars))}

InitRet ==
    /\ rows \in RetStores /\ disk = rows /\ nextId = Cardinality(rows) + 1
    /\ sPc = "idle" /\ sQueue = NoMessage
    /\ bPc = "idle" /\ rPc = "idle" /\ ret = NoReturn /\ dPc = "idle"
    /\ ops = 0
    /\ lastUpsert = {} /\ failedApplied = {}
    /\ exch = {}
    /\ h = HistOff
    /\ agg = [pc |-> "off"]
    /\ ws = StreamOff
    /\ fx = FetchOff
    /\ rd = NoRead

NextRet ==
    \/ \E cutoff \in Cutoffs : DeleteOldExecute(cutoff)
    \/ DeleteOldCommit
    \/ \E day \in Days : DeleteByDateExecute(day)
    \/ DeleteByDateCommit

SpecRet == InitRet /\ [][NextRet]_vars

(***************************************************************************)
(* Claims about the retention delete.                                      *)
(***************************************************************************)
\* The step in which delete_old_candles executes its DELETE.
DeleteStep == rPc = "idle" /\ rPc' = "commit"

\* What the DELETE does to the table and what the method returns.
DeleteRemovesOlder ==
    /\ rows' = {r \in rows : r.timestamp >= ret'.cutoff_time}
    /\ ws' = ws
    /\ ret'.deleted_count = Cardinality(rows \ rows')

RECURSIVE TotalCount(_, _)
TotalCount(tbl, pairs) ==
    IF pairs = {} THEN 0
    ELSE LET pair == CHOOSE x \in pairs : TRUE
         IN get_data_stats(tbl, pair).total_count + TotalCount(tbl, pairs \ {pair})

\* C18 as stated: the delete removes exactly the bars with timestamp < T of
\* every pair, the watch list is unchanged, the returned count is the number
\* removed, and for a pair's stats the count after is the count before minus
\* the returned count and min_timestamp >= T.
C18_StatsCountDropsByReturned ==
    [][DeleteStep =>
        /\ DeleteRemovesOlder
        /\ \A pair \in Pairs :
              /\ get_data_stats(rows', pair).total_count =
                     get_data_stats(rows, pair).total_count - ret'.deleted_count
              /\ get_data_stats(rows', pair).min_timestamp >= ret'.cutoff_time]_vars

\* C18, amended: the returned count is the number removed over all pairs, so
\* the counts of stats summed over the pairs drop by it; a pair that keeps
\* bars has min_timestamp >= T and a pair that keeps none has no min_timestamp.
C18_TotalCountDropsByReturned ==
    [][DeleteStep =>
        /\ DeleteRemovesOlder
        /\ TotalCount(rows', Pairs) = TotalCount(rows, Pairs) - ret'.deleted_count
        /\ \A pair \in Pairs :
              LET stats == get_data_stats(rows', pair)
              IN IF stats.total_count > 0
                 THEN stats.min_timestamp >= ret'.cutoff_time
                 ELSE stats.min_timestamp = NoArg]_vars

\* A delete with cutoff 60000 has removed one bar of each pair and kept two of
\* each.
C18_Witness ==
    /\ rPc = "commit" /\ ret.cutoff_time = MinuteMs /\ ret.deleted_count = 2
    /\ \A pair \in Pairs : get_data_stats(rows, pair).total_count = 2

(***************************************************************************)
(* SpecStream: the collector (OKXCandleCollector), its client              *)
(* (OKXWebSocketClient) and the connection.  The tasks are the client's    *)
(* start() loop and the API handlers that call add_watch_pair and          *)
(* remove_watch_pair; they run on one event loop and change hands only     *)
(* where a task suspends.  Writing a subscribe frame to an open connection *)
(* does not suspend, and a send on a closed connection raises at once, so  *)
(* an API call and one subscribe of the resubscription are single steps    *)
(* and no other task runs between connect() returning and the receive      *)
(* loop; the client learns of a lost connection only while it waits for a  *)
(* message.                                                                *)
(***************************************************************************)
MaxConns == 2             \* connections the client opens in one run
MaxCalls == 2             \* add_watch_pair / remove_watch_pair calls in one run
MaxInbox == 1             \* data messages received and not yet handled

\* The subscription key f"{channel}:{instId}" of a pair's one-minute channel.
Channel(pair) == <<"candle1m", pair>>

\* self.subscriptions[key] = callback for each channel: a key already in the
\* table keeps its place, a new key goes to the end.
RECURSIVE SaveSubscriptions(_, _)
SaveSubscriptions(table, channels) ==
    IF channels = <<>> THEN table
    ELSE SaveSubscriptions(IF Head(channels) \in SeqRange(table) THEN table
                           ELSE Append(table, Head(channels)),
                           Tail(channels))

\* del self.subscriptions[key], list.remove(x).
RECURSIVE Without(_, _)
Without(seq, x) ==
    IF seq = <<>> THEN <<>>
    ELSE IF Head(seq) = x THEN Tail(seq)
    ELSE <<Head(seq)>> \o Without(Tail(seq), x)

RECURSIVE WithoutAll(_, _)
WithoutAll(seq, xs) ==
    IF xs = <<>> THEN seq ELSE WithoutAll(Without(seq, Head(xs)), Tail(xs))

\* OKXWebSocketClient.subscribe: False when self.ws is None or the send raises;
\* the table is written after the send.
subscribe(w, channels) ==
    IF w.conn = 0 \/ ~w.open
    THEN [ws |-> w, result |-> FALSE]
    ELSE [ws |-> [w EXCEPT !.server = @ \cup SeqRange(channels),
                           !.frames = @ + 1,
                           !.subscriptions = SaveSubscriptions(@, channels)],
          result |-> TRUE]

\* OKXWebSocketClient.unsubscribe.
unsubscribe(w, channels) ==
    IF w.conn = 0 \/ ~w.open
    THEN [ws |-> w, result |-> FALSE]
    ELSE [ws |-> [w EXCEPT !.server = @ \ SeqRange(channels),
                           !.frames = @ + 1,
                           !.subscriptions = WithoutAll(@, channels)],
          result |-> TRUE]

\* A resubscription that sends the first group only.
callback_groups_first_only(table) ==
    IF table = <<>> THEN <<>> ELSE <<<<table[1]>>>>

\* start(), the grouping by id(callback): every entry of the table holds its own
\* bound-method object (each self._candle_callback is a new one), so every key
\* is a group of its own, in the table's order.
callback_groups(table) == [i \in 1..Len(table) |-> <<table[i]>>]

\* An add that keeps the pair in the list when its subscribe fails.
add_watch_pair_no_rollback(w, coin_pair) ==
    IF coin_pair \notin SeqRange(w.watch_pairs)
    THEN LET res == subscribe([w EXCEPT !.watch_pairs = Append(@, coin_pair)],
                              <<Channel(coin_pair)>>)
         IN [ws |-> res.ws, sent |-> IF res.result THEN "ok" ELSE "failed"]
    ELSE [ws |-> w, sent |-> "none"]

\* OKXCandleCollector.add_watch_pair.
add_watch_pair(w, coin_pair) ==
    IF coin_pair \notin SeqRange(w.watch_pairs)
    THEN LET res == subscribe([w EXCEPT !.watch_pairs = Append(@, coin_pair)],
                              <<Channel(coin_pair)>>)
         IN IF res.result
            THEN [ws |-> res.ws, sent |-> "ok"]
            ELSE [ws |-> [res.ws EXCEPT !.watch_pairs = Without(@, coin_pair)],
                  sent |-> "failed"]
    ELSE [ws |-> w, sent |-> "none"]

\* A remove that does not look the pair up in the list first.
remove_watch_pair_unchecked(w, coin_pair) ==
    LET res == unsubscribe(w, <<Channel(coin_pair)>>)
    IN IF res.result
       THEN [ws |-> [res.ws EXCEPT !.watch_pairs = Without(@, coin_pair)],
             sent |-> "ok"]
       ELSE [ws |-> res.ws, sent |-> "failed"]

\* OKXCandleCollector.remove_watch_pair.
remove_watch_pair(w, coin_pair) ==
    IF coin_pair \in SeqRange(w.watch_pairs)
    THEN LET res == unsubscribe(w, <<Channel(coin_pair)>>)
         IN IF res.result
            THEN [ws |-> [res.ws EXCEPT !.watch_pairs = Without(@, coin_pair)],
                  sent |-> "ok"]
            ELSE [ws |-> res.ws, sent |-> "failed"]
    ELSE [ws |-> w, sent |-> "none"]

\* The watch lists the collector is constructed with.
WatchLists == {<<>>, <<"BTC-USDT">>, <<"BTC-USDT", "ETH-USDT">>}

\* The data message the server pushes on a pair's channel: one confirmed record.
PushedRecord == StreamRecord(0, 1, 1)

\* OKXCandleCollector.__init__ and OKXWebSocketClient.__init__.  server is the
\* connection's far end: the channels subscribed and not unsubscribed on it;
\* frames, calls, last and delivered are history, delivered telling for each
\* dispatch whether the channels subscribed were those of the table.
InitStream ==
    /\ rows = {} /\ disk = {} /\ nextId = 1
    /\ sPc = "idle" /\ sQueue = NoMessage
    /\ bPc = "idle" /\ rPc = "idle" /\ ret = NoReturn /\ dPc = "idle"
    /\ ops = 0
    /\ lastUpsert = {} /\ failedApplied = {}
    /\ exch = {}
    /\ h = HistOff
    /\ agg = [pc |-> "off"]
    /\ \E watch_pairs \in WatchLists :
          ws = [pc |-> "created", watch_pairs |-> watch_pairs, subscriptions |-> <<>>,
                conn |-> 0, open |-> FALSE, pending |-> <<>>, server |-> {},
                inbox |-> <<>>, frames |-> 0, calls |-> 0,
                last |-> [op |-> "", pair |-> "", sent |-> "none"],
                delivered |-> {}]
    /\ fx = FetchOff
    /\ rd = NoRead

streamFrame == <<storeVars, taskVars, exch, h, agg, fx, rd>>

\* OKXCandleCollector.start up to client.start(): the watched pairs' keys are
\* put into the table, nothing is sent.
CollectorStart ==
    /\ ws.pc = "created"
    /\ ws' = [ws EXCEPT !.pc = "connect",
                        !.subscriptions =
                            SaveSubscriptions(@, [i \in 1..Len(ws.watch_pairs) |->
                                                     Channel(ws.watch_pairs[i])])]
    /\ UNCHANGED streamFrame

\* start(): connect() succeeds; with a non-empty table the groups are built.
ClientConnect ==
    /\ ws.pc = "connect" /\ ws.conn < MaxConns
    /\ ws' = [ws EXCEPT !.conn = @ + 1, !.open = TRUE, !.server = {}, !.inbox = <<>>,
                        !.pending = callback_groups(ws.subscriptions),
                        !.pc = IF ws.subscriptions # <<>> THEN "resubscribe"
                               ELSE "listen"]
    /\ UNCHANGED streamFrame

\* start(): connect() fails; self.ws stays what it was.
ClientConnectFail ==
    /\ ws.pc = "connect"
    /\ ws' = [ws EXCEPT !.pc = "sleep"]
    /\ UNCHANGED streamFrame

\* start(): the subscribe of one group; its result is not looked at.
ClientResubscribe ==
    /\ ws.pc = "resubscribe" /\ ws.pending # <<>>
    /\ LET res == subscribe(ws, Head(ws.pending))
       IN ws' = [res.ws EXCEPT !.pending = Tail(ws.pending),
                               !.pc = IF Tail(ws.pending) = <<>> THEN "listen"
                                      ELSE "resubscribe"]
    /\ UNCHANGED streamFrame

\* The server pushes a data message on a channel subscribed on the connection.
ServerPush(pair) ==
    /\ ws.pc = "listen" /\ ws.open
    /\ Channel(pair) \in ws.server
    /\ Len(ws.inbox) < MaxInbox
    /\ ws' = [ws EXCEPT !.inbox = Append(@, pair)]
    /\ UNCHANGED streamFrame

\* The connection is lost while the client waits for a message.
ServerDrop ==
    /\ ws.pc = "listen" /\ ws.open
    /\ ws' = [ws EXCEPT !.open = FALSE]
    /\ UNCHANGED streamFrame

\* _handle_message on a data message: the callback of the key if the key is in
\* the table (the callback upserts the confirmed record), a warning otherwise.
ClientHandle ==
    /\ ws.pc = "listen" /\ ws.inbox # <<>>
    /\ LET inst_id == Head(ws.inbox)
           candle == ParseRecord(inst_id, PushedRecord)
           res == UpsertStmt(rows, nextId, candle)
       IN IF Channel(inst_id) \in SeqRange(ws.subscriptions)
          THEN /\ rows' = res.rows /\ nextId' = res.nextId /\ disk' = res.rows
               /\ lastUpsert' = Remember(lastUpsert, <<candle>>, "stream")
               /\ ws' = [ws EXCEPT !.inbox = Tail(@),
                                   !.delivered = @ \cup
                                       {[conn |-> ws.conn, channel |-> Channel(inst_id),
                                         in_table |->
                                             ws.server = SeqRange(ws.subscriptions)]}]
          ELSE /\ UNCHANGED <<rows, nextId, disk, lastUpsert>>
               /\ ws' = [ws EXCEPT !.inbox = Tail(@)]
    /\ UNCHANGED <<sPc, sQueue, bPc, rPc, ret, dPc, ops, failedApplied, exch, h, agg, fx, rd>>

\* start(): the receive loop ends on a closed connection, by ConnectionClosed
\* (sleep, then reconnect) or, after a normal closure, by the end of the
\* iteration (reconnect at once).
ClientClosed(how) ==
    /\ ws.pc = "listen" /\ ~ws.open /\ ws.inbox = <<>>
    /\ ws' = [ws EXCEPT !.pc = IF how = "ConnectionClosed" THEN "sleep" ELSE "connect"]
    /\ UNCHANGED streamFrame

\* start(): asyncio.sleep(self.reconnect_delay) is over.
ClientWake ==
    /\ ws.pc = "sleep"
    /\ ws' = [ws EXCEPT !.pc = "connect"]
    /\ UNCHANGED streamFrame

\* An API handler calls collector.add_watch_pair(pair).
AddWatchPair(pair) ==
    /\ ws.pc \notin {"off", "resubscribe"} /\ ws.calls < MaxCalls
    /\ LET res == add_watch_pair(ws, pair)
       IN ws' = [res.ws EXCEPT !.calls = @ + 1,
                               !.last = [op |-> "add", pair |-> pair, sent |-> res.sent]]
    /\ UNCHANGED streamFrame

\* An API handler calls collector.remove_watch_pair(pair).
RemoveWatchPair(pair) ==
    /\ ws.pc \notin {"off", "resubscribe"} /\ ws.calls < MaxCalls
    /\ LET res == remove_watch_pair(ws, pair)
       IN ws' = [res.ws EXCEPT !.calls = @ + 1,
                               !.last = [op |-> "remove", pair |-> pair, sent |-> res.sent]]
    /\ UNCHANGED streamFrame

NextStream ==
    \/ CollectorStart
    \/ ClientConnect
    \/ ClientConnectFail
    \/ ClientResubscribe
    \/ \E pair \in Pairs : ServerPush(pair)
    \/ ServerDrop
    \/ ClientHandle
    \/ \E how \in {"ConnectionClosed", "end of iteration"} : ClientClosed(how)
    \/ ClientWake
    \/ \E pair \in Pairs : AddWatchPair(pair)
    \/ \E pair \in Pairs : RemoveWatchPair(pair)

SpecStream == InitStream /\ [][NextStream]_vars

(***************************************************************************)
(* Claims about the stream client and the collector.                       *)
(***************************************************************************)
Watched == {Channel(p) : p \in SeqRange(ws.watch_pairs)}

ApiCall == ws.pc # "off" /\ ws'.calls = ws.calls + 1

\* C16: an add whose subscribe could not be sent (no socket yet, or the send
\* raised) returns with the watch list and the table as they were.
C16_FailedAddRollsBack ==
    [][(ApiCall /\ ws'.last.op = "add" /\ ws'.last.sent = "failed") =>
          /\ ws'.watch_pairs = ws.watch_pairs
          /\ ws'.subscriptions = ws.subscriptions]_vars

\* An add of a new pair has failed on a connection that was lost, while another
\* pair is watched.
C16_Witness ==
    /\ ws.pc # "off" /\ ws.last = [op |-> "add", pair |-> "ETH-USDT", sent |-> "failed"]
    /\ ws.conn >= 1 /\ ~ws.open
    /\ ws.watch_pairs = <<"BTC-USDT">>

\* C17: an add of a pair that is in the watch list and a remove of a pair that
\* is not in it send nothing and change neither the list nor the table.
C17_AddKnownRemoveUnknownAreNoOps ==
    [][(ApiCall /\ \/ (ws'.last.op = "add"
                         /\ ws'.last.pair \in SeqRange(ws.watch_pairs))
                   \/ (ws'.last.op = "remove"
                         /\ ws'.last.pair \notin SeqRange(ws.watch_pairs))) =>
          /\ ws'.frames = ws.frames /\ ws'.server = ws.server
          /\ ws'.watch_pairs = ws.watch_pairs
          /\ ws'.subscriptions = ws.subscriptions]_vars

\* On an open connection a watched pair has been added again, after an unknown
\* pair was removed.
C17_Witness ==
    /\ ws.pc = "listen" /\ ws.open /\ ws.calls = 2
    /\ ws.last = [op |-> "add", pair |-> "BTC-USDT", sent |-> "none"]
    /\ ws.watch_pairs = <<"BTC-USDT">> /\ ws.frames = 1

\* C23: every bar of the response to a request with since = S has a timestamp
\* of at least S, also when S is not on a boundary of the interval.
C23_ResponseNotBeforeSince ==
    (h.pc = "done" /\ h.since # NoArg) =>
        \A i \in 1..Len(h.response) : h.response[i].timestamp >= h.since

\* The input the interface allows: a supported interval, a pair BASE/QUOTE, a
\* limit in [1, 1000] when there is one, a since that is not negative.
IsBaseQuote(coinpair) ==
    \E i \in 2..(Len(coinpair) - 1) :
        /\ coinpair[i] = "/"
        /\ \A j \in 1..Len(coinpair) : coinpair[j] = "/" => j = i
ValidInput(q) ==
    /\ q.interval \in valid_intervals
    /\ IsBaseQuote(q.coinpair)
    /\ q.limit = NoArg \/ (1 <= q.limit /\ q.limit <= 1000)
    /\ q.since = NoArg \/ q.since >= 0
ViaApi == h.pc # "idle" /\ h.query # NoQuery

\* C25: a query with an invalid interval, pair, limit or since is answered with
\* a 4xx status, and the service does not run for it: no read of the store, no
\* write to it, no fetch from the exchange.
C25_InvalidInputNeverReachesService ==
    (ViaApi /\ ~ValidInput(h.query)) =>
        /\ h.pc = "rejected" /\ h.status \in 400..499
        /\ ~h.checked /\ h.fetches = <<>> /\ h.writes = 0

(***************************************************************************)
(* SpecFetch: ExchangeService.get_historical_candlestick.  The function    *)
(* has no await: its attempts and its time.sleep backoffs follow one       *)
(* another, each attempt being one step here.  The exceptions are ccxt's:  *)
(* RequestTimeout and ExchangeNotAvailable derive from NetworkError,       *)
(* BadSymbol from BadRequest and so from ExchangeError; IndexError is what *)
(* _format_ohlcv_data raises on a row that is too short.                   *)
(***************************************************************************)
MaxRetries == 3     \* max_retries is drawn from 0..MaxRetries

ErrorParent(cls) ==
    CASE cls = "RequestTimeout" -> "NetworkError"
      [] cls = "ExchangeNotAvailable" -> "NetworkError"
      [] cls = "NetworkError" -> "BaseError"
      [] cls = "BadSymbol" -> "BadRequest"
      [] cls = "BadRequest" -> "ExchangeError"
      [] cls = "ExchangeError" -> "BaseError"
      [] cls = "BaseError" -> "Exception"
      [] cls = "IndexError" -> "Exception"
      [] OTHER -> ""
RECURSIVE IsInstance(_, _)
IsInstance(cls, base) ==
    IF cls = base THEN TRUE
    ELSE IF cls = "" THEN FALSE
    ELSE IsInstance(ErrorParent(cls), base)

\* The except clauses of the retry loop, in their order (lines 160-183).
ExceptClause(cls) ==
    IF IsInstance(cls, "NetworkError") THEN "retry"
    ELSE IF IsInstance(cls, "ExchangeError") THEN "retry"
    ELSE "raise"

Markets == {"BTC/USDT"}
FetchSymbols == {"BTC/USDT", "FOO/BAR"}
\* What one pass through the try body can end in for a symbol: data, or an
\* exception; a symbol the exchange does not list raises BadSymbol every time.
AttemptOutcomes(coinpair) ==
    IF coinpair \in Markets
    THEN {"ok", "RequestTimeout", "ExchangeNotAvailable", "IndexError"}
    ELSE {"BadSymbol"}

\* get_historical_candlestick up to its loop: the cache lookup.
FetchCall(coinpair, since, use_cache, cached, max_retries) ==
    /\ fx.pc = "off"
    /\ cached => use_cache
    /\ fx' = [pc |-> IF use_cache /\ cached THEN "returned" ELSE "loop",
              coinpair |-> coinpair, since |-> since, use_cache |-> use_cache,
              max_retries |-> max_retries, retry_count |-> 0, last_error |-> "",
              raised |-> <<>>, sleeps |-> <<>>, error |-> "",
              from_cache |-> use_cache /\ cached, cache_set |-> FALSE]
    /\ UNCHANGED <<storeVars, taskVars, exch, h, agg, ws, rd>>

\* One pass of "while retry_count < max_retries": the try body and the except
\* clause its exception selects.
FetchAttempt(outcome) ==
    /\ fx.pc = "loop" /\ fx.retry_count < fx.max_retries
    /\ outcome \in AttemptOutcomes(fx.coinpair)
    /\ fx' = IF outcome = "ok"
             THEN [fx EXCEPT !.pc = "returned", !.cache_set = fx.use_cache]
             ELSE IF ExceptClause(outcome) = "retry"
             THEN [fx EXCEPT !.last_error = outcome,
                             !.retry_count = @ + 1,
                             !.raised = Append(@, outcome),
                             !.sleeps = IF fx.retry_count + 1 < fx.max_retries
                                        THEN Append(@, 2 ^ (fx.retry_count + 1))
                                        ELSE @]
             ELSE [fx EXCEPT !.pc = "raised", !.error = "Exception",
                             !.raised = Append(@, outcome)]
    /\ UNCHANGED <<storeVars, taskVars, exch, h, agg, ws, rd>>

\* Lines 185-188: the loop has ended without a return.
FetchExhausted ==
    /\ fx.pc = "loop" /\ fx.retry_count >= fx.max_retries
    /\ fx' = [fx EXCEPT !.pc = "raised", !.error = "Exception"]
    /\ UNCHANGED <<storeVars, taskVars, exch, h, agg, ws, rd>>

InitFetch ==
    /\ rows = {} /\ disk = {} /\ nextId = 1
    /\ sPc = "idle" /\ sQueue = NoMessage
    /\ bPc = "idle" /\ rPc = "idle" /\ ret = NoReturn /\ dPc = "idle"
    /\ ops = 0
    /\ lastUpsert = {} /\ failedApplied = {}
    /\ exch = {}
    /\ h = HistOff
    /\ agg = [pc |-> "off"]
    /\ ws = StreamOff
    /\ fx = FetchOff
    /\ rd = NoRead

NextFetch ==
    \/ \E coinpair \in FetchSymbols : \E since \in {NoArg, 0} :
       \E use_cache \in BOOLEAN : \E cached \in BOOLEAN :
       \E max_retries \in 0..MaxRetries :
           FetchCall(coinpair, since, use_cache, cached, max_retries)
    \/ \E outcome \in {"ok", "RequestTimeout", "ExchangeNotAvailable", "IndexError",
                       "BadSymbol"} : FetchAttempt(outcome)
    \/ FetchExhausted

SpecFetch == InitFetch /\ [][NextFetch]_vars

Transient(cls) == IsInstance(cls, "NetworkError")
Permanent(cls) == cls \in {"BadSymbol", "IndexError"}
FetchOver == fx.pc \in {"returned", "raised"}

\* C26: a fetch is attempted at most max_retries times, exactly max_retries
\* times when every attempt fails with a network error, and then it raises;
\* a permanent error (unknown symbol, malformed response) is raised by the
\* attempt it occurs in, with no attempt after it.
C26_RetryOnlyTransient ==
    (fx.pc # "off") =>
        /\ Len(fx.raised) <= fx.max_retries
        /\ (fx.pc = "raised" /\ \A i \in 1..Len(fx.raised) : Transient(fx.raised[i]))
               => Len(fx.raised) = fx.max_retries
        /\ FetchOver =>
               \A i \in 1..Len(fx.raised) :
                   Permanent(fx.raised[i]) => (i = Len(fx.raised) /\ fx.pc = "raised")

\* The rows of a table at the timestamps of the chunk in progress.
ChunkRows(tbl) ==
    {r \in tbl : /\ r.coin_pair = HistPair
                 /\ \E i \in 1..Len(h.filtered_data) :
                        h.filtered_data[i].timestamp = r.timestamp}

\* C27: when the request is cancelled during its backfill, the chunk in
\* progress is in the store as a whole and committed, or the store is as it
\* was at the chunk's timestamps: the connection holds no bar of the chunk that
\* is not committed.
C27_CancelNeverSplitsChunk ==
    (h.pc = "cancelled") => ChunkRows(rows) = ChunkRows(disk)

(***************************************************************************)
(* SpecRead: get_candles, get_latest_candle and get_data_stats between the *)
(* awaits of the stream upsert, of insert_candles_batch and of the         *)
(* retention delete.  Every one of them runs its statement on self.db, the *)
(* one connection of the process (database.py:21, 370-371).  A read        *)
(* records what it returned and what the committed table would have given. *)
(***************************************************************************)
ReadStores == {S \in RetStores : \A r \in S : r.coin_pair = HistPair}
ReadMessages == {m \in StreamMessages : m.instId = HistPair /\ Len(m.data) = 1}
ReadBatches == {b \in Batches : \A i \in 1..Len(b) : b[i].coin_pair = HistPair}

readFrame == <<storeVars, sPc, sQueue, bPc, rPc, ret, dPc, lastUpsert, failedApplied,
               exch, h, agg, ws, fx>>

\* get_candles: the SELECT runs on the shared connection.
ReadCandles(pair, start_time, end_time, limit) ==
    /\ ops < MaxOps /\ ops' = ops + 1
    /\ rd' = [op |-> "get_candles",
              seen |-> get_candles(rows, pair, start_time, end_time, limit),
              committed |-> get_candles(disk, pair, start_time, end_time, limit)]
    /\ UNCHANGED readFrame

\* get_latest_candle.
ReadLatest(pair) ==
    /\ ops < MaxOps /\ ops' = ops + 1
    /\ rd' = [op |-> "get_latest_candle",
              seen |-> get_latest_candle(rows, pair),
              committed |-> get_latest_candle(disk, pair)]
    /\ UNCHANGED readFrame

\* get_data_stats.
ReadStats(pair) ==
    /\ ops < MaxOps /\ ops' = ops + 1
    /\ rd' = [op |-> "get_data_stats",
              seen |-> <<get_data_stats(rows, pair)>>,
              committed |-> <<get_data_stats(disk, pair)>>]
    /\ UNCHANGED readFrame

InitRead ==
    /\ rows \in ReadStores /\ disk = rows /\ nextId = Cardinality(rows) + 1
    /\ sPc = "idle" /\ sQueue = NoMessage
    /\ bPc = "idle" /\ rPc = "idle" /\ ret = NoReturn /\ dPc = "idle"
    /\ ops = 0
    /\ lastUpsert = {} /\ failedApplied = {}
    /\ exch = {}
    /\ h = HistOff
    /\ agg = [pc |-> "off"]
    /\ ws = StreamOff
    /\ fx = FetchOff
    /\ rd = NoRead

NextRead ==
    \/ \E msg \in ReadMessages : StreamDeliver(msg)
    \/ StreamSkip
    \/ InsertCandleExecute
    \/ InsertCandleCommit
    \/ StreamReturn
    \/ \E batch \in ReadBatches : BatchExecute(batch)
    \/ BatchCommit
    \/ \E cutoff \in Cutoffs : DeleteOldExecute(cutoff)
    \/ DeleteOldCommit
    \/ \E start_time \in {NoArg, MinuteMs} : \E limit \in {NoArg, 1} :
           ReadCandles(HistPair, start_time, NoArg, limit)
    \/ ReadLatest(HistPair)
    \/ ReadStats(HistPair)

SpecRead == InitRead /\ [][NextRead]_vars

\* C28: a read returns what the committed table holds: no bar of an upsert that
\* is not committed yet, and every bar whose delete is not committed yet.
C28_ReadsSeeCommittedOnly == rd.seen = rd.committed

(***************************************************************************)
(* SpecAlign: the stream callback and insert_candles_batch fed with the    *)
(* timestamps an exchange may send, on and off the minute boundaries.      *)
(***************************************************************************)
ExchangeTs == {0, 30000, MinuteMs, MinuteMs + 1}
AlignMessages ==
    {[instId |-> HistPair, data |-> <<StreamRecord(ts, 1, cf)>>, skipped |-> <<>>] :
        ts \in ExchangeTs, cf \in {0, 1}}
\* The batches _download_and_fill_data builds from fetched candles.
AlignBatches ==
    UNION {[1..n -> {BackfillCandle(HistPair, ExchangeCandle(ts, 2)) : ts \in ExchangeTs}] :
               n \in 1..MaxBatch}

NextAlign ==
    \/ \E msg \in AlignMessages : StreamDeliver(msg)
    \/ StreamSkip
    \/ InsertCandleExecute
    \/ InsertCandleCommit
    \/ StreamReturn
    \/ \E batch \in AlignBatches : BatchExecute(batch)
    \/ BatchCommit

SpecAlign == Init /\ [][NextAlign]_vars

\* C29: every stored bar has a timestamp that is a multiple of 60 000, in the
\* connection's view and in the committed table, whatever timestamps the
\* stream and the historical endpoint deliver.
C29_StoredTimestampsAligned ==
    \A r \in rows \cup disk : r.timestamp % MinuteMs = 0

(***************************************************************************)
(* SpecDrop: the stream callback on messages of several records, with      *)
(* insert_candle raising a storage error.                                  *)
(***************************************************************************)
DropRecords == {StreamRecord(0, 1, 1), StreamRecord(MinuteMs, 1, 1), StreamRecord(0, 2, 0)}
DropMessages ==
    {[instId |-> HistPair, data |-> d, skipped |-> <<>>] :
        d \in UNION {[1..n -> DropRecords] : n \in 1..MaxRecords}}

\* insert_candle raises at its execute or at its commit (at the commit the
\* statement stays applied on the connection): it logs and re-raises, the
\* except clause around the whole loop of _candle_callback logs, and the
\* callback returns.  sQueue.data keeps, as history, the records that came after
\* the one that failed.
InsertCandleFail(at) ==
    /\ sQueue.data # <<>>
    /\ ParseRecord(sQueue.instId, Head(sQueue.data)).confirm = 1
    /\ \/ at = "execute" /\ sPc = "loop"
       \/ at = "commit" /\ sPc = "commit"
    /\ sPc' = "idle"
    /\ sQueue' = [sQueue EXCEPT !.data = Tail(@)]
    /\ UNCHANGED <<rows, disk, nextId, bPc, rPc, ret, dPc, ops, lastUpsert, failedApplied>>
    /\ UNCHANGED otherVars

NextDrop ==
    \/ \E msg \in DropMessages : StreamDeliver(msg)
    \/ StreamSkip
    \/ InsertCandleExecute
    \/ InsertCandleCommit
    \/ StreamReturn
    \/ \E at \in {"execute", "commit"} : InsertCandleFail(at)

SpecDrop == Init /\ [][NextDrop]_vars

\* C30: when the callback has returned, no confirmed record of its message is
\* left unprocessed: a storage error on one bar drops that bar only.
C30_StorageErrorDropsOneBar ==
    (sPc = "idle") =>
        \A i \in 1..Len(sQueue.data) :
            ParseRecord(sQueue.instId, sQueue.data[i]).confirm # 1

(***************************************************************************)
(* SpecRoute: _handle_message on the messages a server can send, event     *)
(* messages included, on an open connection whose table holds the watched  *)
(* pairs, while add_watch_pair and remove_watch_pair change the table.     *)
(* A message is [event, has_arg, channel, instId, has_data], event being   *)
(* "" when the message has no "event" field.                               *)
(***************************************************************************)
RouteMessage(event, has_arg, channel, instId, has_data) ==
    [event |-> event, has_arg |-> has_arg, channel |-> channel, instId |-> instId,
     has_data |-> has_data]
\* Pushes of both pairs and of another channel, a message without data, the
\* three events, and an event that carries arg and data.
RouteMessages ==
    {RouteMessage("", TRUE, "candle1m", pair, TRUE) : pair \in Pairs}
    \cup {RouteMessage("", TRUE, "tickers", "BTC-USDT", TRUE),
          RouteMessage("", TRUE, "candle1m", "BTC-USDT", FALSE),
          RouteMessage("subscribe", TRUE, "candle1m", "BTC-USDT", FALSE),
          RouteMessage("unsubscribe", TRUE, "candle1m", "BTC-USDT", FALSE),
          RouteMessage("error", FALSE, "", "", FALSE),
          RouteMessage("subscribe", TRUE, "candle1m", "BTC-USDT", TRUE)}

\* A dispatch that does not look for the "event" field first.
_handle_message_no_event_check(table, msg) ==
    IF msg.has_arg /\ msg.has_data /\ <<msg.channel, msg.instId>> \in SeqRange(table)
    THEN <<msg.channel, msg.instId>>
    ELSE <<>>

\* _handle_message: the key whose callback is awaited with the message, <<>>
\* when no callback is.
_handle_message(table, msg) ==
    IF msg.event # "" THEN <<>>
    ELSE IF msg.has_arg /\ msg.has_data /\ <<msg.channel, msg.instId>> \in SeqRange(table)
    THEN <<msg.channel, msg.instId>>
    ELSE <<>>

\* No message has been handled.
NotRouted == [msg |-> [event |-> "", has_arg |-> FALSE, channel |-> "", instId |-> "",
                       has_data |-> FALSE],
              callback |-> <<>>, table |-> {}, rows_before |-> {}]

\* The collector has started and the client has connected and resubscribed;
\* routed is history: the message handled last, the table and the store at that
\* moment, and the key of the callback it was handed to.
InitRoute ==
    /\ rows = {} /\ disk = {} /\ nextId = 1
    /\ sPc = "idle" /\ sQueue = NoMessage
    /\ bPc = "idle" /\ rPc = "idle" /\ ret = NoReturn /\ dPc = "idle"
    /\ ops = 0
    /\ lastUpsert = {} /\ failedApplied = {}
    /\ exch = {}
    /\ h = HistOff
    /\ agg = [pc |-> "off"]
    /\ \E watch_pairs \in WatchLists :
          LET table == [i \in 1..Len(watch_pairs) |-> Channel(watch_pairs[i])]
          IN ws = [pc |-> "listen", watch_pairs |-> watch_pairs, subscriptions |-> table,
                   conn |-> 1, open |-> TRUE, pending |-> <<>>,
                   server |-> SeqRange(table), inbox |-> <<>>,
                   frames |-> Len(table), calls |-> 0,
                   last |-> [op |-> "", pair |-> "", sent |-> "none"],
                   delivered |-> {}, routed |-> NotRouted]
    /\ fx = FetchOff
    /\ rd = NoRead

\* A message arrives on the connection.
RoutePush(msg) ==
    /\ ws.pc = "listen" /\ ws.open
    /\ Len(ws.inbox) < MaxInbox
    /\ ws' = [ws EXCEPT !.inbox = Append(@, msg)]
    /\ UNCHANGED streamFrame

\* _handle_message on the next message; the callback it awaits is
\* _candle_callback, which upserts the message's confirmed record under the
\* message's instId.
RouteHandle ==
    /\ ws.pc = "listen" /\ ws.inbox # <<>>
    /\ LET msg == Head(ws.inbox)
           key == _handle_message(ws.subscriptions, msg)
           candle == ParseRecord(msg.instId, PushedRecord)
           res == UpsertStmt(rows, nextId, candle)
       IN /\ IF key # <<>>
             THEN /\ rows' = res.rows /\ nextId' = res.nextId /\ disk' = res.rows
                  /\ lastUpsert' = Remember(lastUpsert, <<candle>>, "stream")
             ELSE UNCHANGED <<rows, nextId, disk, lastUpsert>>
          /\ ws' = [ws EXCEPT !.inbox = Tail(@),
                              !.routed = [msg |-> msg, callback |-> key,
                                          table |-> SeqRange(ws.subscriptions),
                                          rows_before |-> rows]]
    /\ UNCHANGED <<sPc, sQueue, bPc, rPc, ret, dPc, ops, failedApplied, exch, h, agg, fx, rd>>

NextRoute ==
    \/ \E msg \in RouteMessages : RoutePush(msg)
    \/ RouteHandle
    \/ \E pair \in Pairs : AddWatchPair(pair)
    \/ \E pair \in Pairs : RemoveWatchPair(pair)

SpecRoute == InitRoute /\ [][NextRoute]_vars

\* C31: an event message is handed to no callback; a data message is handed to
\* the callback of its own channel:pair key, and only when that key is in the
\* table at that moment; a message handed to no callback leaves the store as
\* it was, and the store holds bars only of pairs that have been in the table.
C31_RoutingByKey ==
    LET d == ws.routed
        key == <<d.msg.channel, d.msg.instId>>
    IN /\ d.msg.event # "" => d.callback = <<>>
       /\ d.callback # <<>> => (d.callback = key /\ d.msg.has_data)
       /\ key \notin d.table => d.callback = <<>>
       /\ d.callback = <<>> => (rows = d.rows_before /\ disk = rows)

\* A data message of a pair that was removed after the message arrived has been
\* handled and has left the store empty.
C31_Witness ==
    /\ ws.last.op = "remove" /\ ws.last.sent = "ok" /\ rows = {}
    /\ ws.routed.msg.event = "" /\ ws.routed.msg.has_arg /\ ws.routed.msg.has_data
    /\ ws.routed.msg.channel = "candle1m" /\ ws.routed.msg.instId = ws.last.pair
    /\ ws.routed.callback = <<>>

\* SpecChunks: the requests of SpecHist against the exchanges that hold bars
\* beyond the first 24-hour chunk.
InitChunks == InitHist /\ FarMinute \in exch
NextChunks ==
    \/ \E req \in HistRequests : \E now \in HistNows : HistRequest(req, now)
    \/ \E q \in ApiQueries : HistApiRequest(q, (FarMinute + 1) * MinuteMs + 30000)
    \/ HistCheckCandles
    \/ HistCheckLatest
    \/ HistDownloadStart
    \/ \E step \in {"ExchangeService", "get_latest_candle"} : HistDownloadSetupFail(step)
    \/ HistFetch
    \/ HistFetchFail
    \/ HistWrite
    \/ \E k \in 0..MaxHistMinute : HistWriteFail(k)
    \/ HistLoopExit
    \/ HistAggregate
    \/ HistRerun
    \/ \E back \in {0, 1} : HistStreamInsert(back)
    \/ \E at \in {"get_latest_candle", "executemany", "commit"} : HistCancel(at)

SpecChunks == InitChunks /\ [][NextChunks]_vars

\* The minutes the exchange has in the filter range of the i-th chunk fetched.
ChunkMinutes(i) ==
    {k \in exch : /\ h.fetches[i] <= k * MinuteMs
                  /\ k * MinuteMs <= Min2(h.fetches[i] + chunk_size_ms, h.end_time)}
Committed(k) == \E r \in disk : r.coin_pair = HistPair /\ r.timestamp = k * MinuteMs
InWalk == h.pc \notin {"idle", "rejected"} /\ h.downloading

\* C32: once the fetch of a later chunk has been issued, every bar the exchange
\* has in the range of an earlier chunk that did not fail is committed: chunk i
\* is written and committed before chunk i+1 is fetched.
C32_ChunkCommittedBeforeNextFetch ==
    InWalk =>
        \A i \in 1..(Len(h.fetches) - 1) :
            h.outcomes[i] \notin {"fetch_failed", "write_failed"} =>
                \A k \in ChunkMinutes(i) : Committed(k)

\* A walk of two chunks: the bars of the first are committed while the second
\* has been fetched and is not written yet.
C32_Witness ==
    /\ InWalk /\ h.pc = "write" /\ Len(h.fetches) = 2 /\ h.outcomes = <<"written">>
    /\ Cardinality(ChunkMinutes(1)) >= 2
    /\ \A k \in ChunkMinutes(1) : Committed(k)
    /\ \E k \in ChunkMinutes(2) : ~Committed(k)

(***************************************************************************)
(* SpecFan: the ticker fan-out of app/services/websocket_manager.py and    *)
(* the /ws/ticker endpoint of app/api/websocket.py.  Every endpoint task   *)
(* and every upstream handler task moves from one suspension to the next   *)
(* in one step.  A send to a client writes the message and may then        *)
(* suspend; closing a connection that is closed already does not suspend.  *)
(* An upstream event message and a receive timeout change nothing.         *)
(***************************************************************************)
Clients == {"c1", "c2"}
max_retries == 5
MaxTasks == 2
MaxLog == 2

HandlerNew ==
    [pc |-> "start", retry_count |-> 0, used |-> 0, todo |-> {}, failed |-> {},
     cancel |-> FALSE, ended |-> ""]
HandlerDone(why) ==
    [pc |-> "done", retry_count |-> 0, used |-> 0, todo |-> {}, failed |-> {},
     cancel |-> FALSE, ended |-> why]

\* The upstream handler tasks that have not ended.
Alive(w) == {t \in 1..Len(w.handlers) : w.handlers[t].pc # "done"}

\* The client receives a message; the log keeps the first MaxLog of them.
Deliver(w, c, kind) ==
    [w EXCEPT !.got[c] = IF Len(@) < MaxLog THEN Append(@, kind) ELSE @]

\* connect_client's condition with the guard of _connect_to_okx.
starts_upstream(clients, is_running) == Cardinality(clients) = 1 /\ ~is_running

_connect_to_okx(w) ==
    IF w.is_running THEN w
    ELSE [w EXCEPT !.is_running = TRUE,
                   !.handlers = Append(@, HandlerNew),
                   !.okx_task = Len(w.handlers) + 1]

\* The client set changes under an iteration that is suspended in a send: a
\* discarded client is not visited any more, an added one is visited when its
\* slot lies ahead of the iterator.
SetAdd(w, c, ahead) ==
    [w EXCEPT !.clients = @ \cup {c},
              !.handlers = [t \in DOMAIN @ |->
                  IF @[t].pc = "send" /\ ahead THEN [@[t] EXCEPT !.todo = @ \cup {c}]
                  ELSE @[t]]]
SetDiscard(w, cs) ==
    [w EXCEPT !.clients = @ \ cs,
              !.handlers = [t \in DOMAIN @ |-> [@[t] EXCEPT !.todo = @ \ cs]]]

connect_client(w, c, ahead) ==
    LET w1 == SetAdd(w, c, ahead)
    IN IF starts_upstream(w1.clients, w1.is_running) THEN _connect_to_okx(w1) ELSE w1

Returned(w, op) ==
    [w EXCEPT !.last = [op |-> op, n |-> Cardinality(w.clients), up |-> Alive(w) # {}]]

\* The connection of the upstream handler after its async with block is left.
ConnectionLeft(w) == [w EXCEPT !.okx_connection = IF @ = "open" THEN "closed" ELSE @]

\* The outer while of _okx_message_handler and what follows it.
OuterLoop(w, t, retry) ==
    IF w.is_running /\ retry < max_retries
    THEN [w EXCEPT !.handlers[t] = [HandlerNew EXCEPT !.pc = "connecting",
                                                      !.retry_count = retry]]
    ELSE IF retry >= max_retries
    THEN [w EXCEPT !.is_running = FALSE, !.handlers[t] = HandlerDone("exhausted")]
    ELSE [w EXCEPT !.handlers[t] = HandlerDone("stopped")]

\* The inner while: the next recv, or the way out of the async with block.
InnerLoop(w, t) ==
    IF w.is_running
    THEN [w EXCEPT !.handlers[t] = [HandlerNew EXCEPT !.pc = "recv"]]
    ELSE OuterLoop(ConnectionLeft(w), t, w.handlers[t].retry_count)

\* except WebSocketException.
Retry(w, t) ==
    LET retry == w.handlers[t].retry_count + 1
        w1 == ConnectionLeft(w)
    IN IF retry < max_retries /\ w1.is_running
       THEN [w1 EXCEPT !.handlers[t] = [HandlerNew EXCEPT !.pc = "backoff",
                                                          !.retry_count = retry]]
       ELSE OuterLoop(w1, t, retry)

FanOff ==
    [pc |-> "fan", clients |-> {}, is_running |-> FALSE, lock |-> "",
     okx_task |-> 0, okx_connection |-> "none", handlers |-> <<>>,
     ep |-> [c \in Clients |-> "closed"], got |-> [c \in Clients |-> <<>>],
     broken |-> {},
     last |-> [op |-> "", n |-> 0, up |-> FALSE]]

InitFan ==
    /\ rows = {} /\ disk = {} /\ nextId = 1
    /\ sPc = "idle" /\ sQueue = NoMessage
    /\ bPc = "idle" /\ rPc = "idle" /\ ret = NoReturn /\ dPc = "idle"
    /\ ops = 0
    /\ lastUpsert = {} /\ failedApplied = {}
    /\ exch = {}
    /\ h = HistOff
    /\ agg = [pc |-> "off"]
    /\ ws = FanOff
    /\ fx = FetchOff
    /\ rd = NoRead

\* websocket.accept().
Accept(c) ==
    /\ ws.pc = "fan" /\ ws.ep[c] = "closed"
    /\ ws' = [ws EXCEPT !.ep[c] = "accepted", !.got[c] = <<>>, !.broken = @ \ {c}]
    /\ UNCHANGED streamFrame

\* connect_client from the lock on, without the welcome message.
ConnectClientNoWelcome(c, ok, ahead) ==
    /\ ws.pc = "fan" /\ ws.ep[c] = "accepted" /\ ws.lock = ""
    /\ \/ Len(ws.handlers) < MaxTasks
       \/ ~starts_upstream(ws.clients \cup {c}, ws.is_running)
    /\ LET w1 == Returned(connect_client(ws, c, ahead), "connect")
       IN ws' = [w1 EXCEPT !.ep[c] = IF ok THEN "open" ELSE "leaving",
                           !.broken = IF ok THEN @ ELSE @ \cup {c}]
    /\ UNCHANGED streamFrame

\* connect_client from the lock on and the welcome message: the endpoint does
\* not suspend between the two.
ConnectClient(c, ok, ahead) ==
    /\ ws.pc = "fan" /\ ws.ep[c] = "accepted" /\ ws.lock = ""
    /\ \/ Len(ws.handlers) < MaxTasks
       \/ ~starts_upstream(ws.clients \cup {c}, ws.is_running)
    /\ LET w1 == Returned(connect_client(ws, c, ahead), "connect")
           w2 == IF ok THEN Deliver(w1, c, "connected") ELSE w1
       IN ws' = [w2 EXCEPT !.ep[c] = IF ok THEN "open" ELSE "leaving",
                           !.broken = IF ok THEN @ ELSE @ \cup {c}]
    /\ UNCHANGED streamFrame

\* receive_text raises: the client has gone.
ClientGone(c) ==
    /\ ws.pc = "fan" /\ ws.ep[c] = "open"
    /\ ws' = [ws EXCEPT !.ep[c] = "leaving"]
    /\ UNCHANGED streamFrame

\* disconnect_client that cancels the upstream task and returns without
\* awaiting it.
DisconnectClientNoAwait(c) ==
    /\ ws.pc = "fan" /\ ws.ep[c] = "leaving" /\ ws.lock = ""
    /\ LET w1 == SetDiscard(ws, {c})
           w2 == [w1 EXCEPT !.is_running = FALSE]
       IN IF w1.clients = {} /\ w1.is_running
          THEN IF w2.okx_task \in Alive(w2)
               THEN ws' = [Returned(w2, "disconnect") EXCEPT
                               !.handlers[w2.okx_task].cancel = TRUE,
                               !.ep[c] = "closed"]
               ELSE ws' = [Returned(w2, "disconnect") EXCEPT
                               !.okx_connection = IF @ = "open" THEN "none" ELSE @,
                               !.ep[c] = "closed"]
          ELSE ws' = [Returned(w1, "disconnect") EXCEPT !.ep[c] = "closed"]
    /\ UNCHANGED streamFrame

\* disconnect_client from the lock on, up to its return or to the await of
\* the cancelled upstream task in _disconnect_from_okx.
DisconnectClient(c) ==
    /\ ws.pc = "fan" /\ ws.ep[c] = "leaving" /\ ws.lock = ""
    /\ LET w1 == SetDiscard(ws, {c})
           w2 == [w1 EXCEPT !.is_running = FALSE]
       IN IF w1.clients = {} /\ w1.is_running
          THEN IF w2.okx_task \in Alive(w2)
               THEN ws' = [w2 EXCEPT !.handlers[w2.okx_task].cancel = TRUE,
                                     !.lock = c, !.ep[c] = "stopping"]
               ELSE ws' = [Returned(w2, "disconnect") EXCEPT
                               !.okx_connection = IF @ = "open" THEN "none" ELSE @,
                               !.ep[c] = "closed"]
          ELSE ws' = [Returned(w1, "disconnect") EXCEPT !.ep[c] = "closed"]
    /\ UNCHANGED streamFrame

\* The awaited upstream task has ended: _disconnect_from_okx and
\* disconnect_client return.
DisconnectFinish(c) ==
    /\ ws.pc = "fan" /\ ws.ep[c] = "stopping"
    /\ ws.okx_task \notin Alive(ws)
    /\ ws' = [Returned([ws EXCEPT !.lock = ""], "disconnect") EXCEPT
                  !.okx_connection = IF @ = "open" THEN "none" ELSE @,
                  !.ep[c] = "closed"]
    /\ UNCHANGED streamFrame

\* CancelledError is thrown into the handler where it is suspended.
HandlerCancelled(t) ==
    /\ ws.pc = "fan" /\ t \in Alive(ws) /\ ws.handlers[t].cancel
    /\ ws' = [ConnectionLeft(ws) EXCEPT !.handlers[t] = HandlerDone("cancelled")]
    /\ UNCHANGED streamFrame

Runs(t, pc) ==
    /\ ws.pc = "fan" /\ t \in 1..Len(ws.handlers)
    /\ ws.handlers[t].pc = pc /\ ~ws.handlers[t].cancel

HandlerStart(t) ==
    /\ Runs(t, "start")
    /\ ws' = OuterLoop(ws, t, 0)
    /\ UNCHANGED streamFrame

\* websockets.connect and the subscribe request.
HandlerConnect(t, outcome) ==
    /\ Runs(t, "connecting")
    /\ ws' = CASE outcome = "ok" ->
                    InnerLoop([ws EXCEPT !.okx_connection = "open",
                                         !.handlers[t].retry_count = 0], t)
               [] outcome = "WebSocketException" -> Retry(ws, t)
               [] outcome = "OSError" ->
                    [ws EXCEPT !.handlers[t] = HandlerDone("Exception")]
    /\ UNCHANGED streamFrame

\* The sleep of the backoff is over.
HandlerBackoff(t) ==
    /\ Runs(t, "backoff")
    /\ ws' = OuterLoop(ws, t, ws.handlers[t].retry_count)
    /\ UNCHANGED streamFrame

\* A send reaches a client whose endpoint is in its receive loop and whose
\* connection has not failed before.
Sendable(w, c) == w.ep[c] = "open" /\ c \notin w.broken

\* One send_text of broadcast's loop over self.clients.
BroadcastNext(w, t, c, ok) ==
    LET w1 == IF ok THEN Deliver(w, c, "data") ELSE [w EXCEPT !.broken = @ \cup {c}]
    IN [w1 EXCEPT !.handlers[t].pc = "send",
                  !.handlers[t].todo = @ \ {c},
                  !.handlers[t].failed = IF ok THEN @ ELSE @ \cup {c}]

\* recv returns a data message: broadcast up to its first send.
HandlerRecvData(t, c, ok) ==
    /\ Runs(t, "recv")
    /\ c \in ws.clients
    /\ ok => Sendable(ws, c)
    /\ ws' = BroadcastNext([ws EXCEPT !.handlers[t].used = Cardinality(ws.clients),
                                      !.handlers[t].todo = ws.clients], t, c, ok)
    /\ UNCHANGED streamFrame

\* recv raises ConnectionClosed.
HandlerRecvClosed(t) ==
    /\ Runs(t, "recv")
    /\ ws' = Retry(ws, t)
    /\ UNCHANGED streamFrame

\* The iterator finds the set of another size: RuntimeError leaves broadcast
\* and is caught by the handler's except Exception.
BroadcastSetChanged(t) ==
    /\ Runs(t, "send")
    /\ Cardinality(ws.clients) # ws.handlers[t].used
    /\ ws' = [ConnectionLeft(ws) EXCEPT !.handlers[t] = HandlerDone("RuntimeError")]
    /\ UNCHANGED streamFrame

BroadcastSend(t, c, ok) ==
    /\ Runs(t, "send")
    /\ Cardinality(ws.clients) = ws.handlers[t].used
    /\ c \in ws.handlers[t].todo
    /\ ok => Sendable(ws, c)
    /\ ws' = BroadcastNext(ws, t, c, ok)
    /\ UNCHANGED streamFrame

\* The clean-up of broadcast once it holds the lock.
Cleanup(w, t) ==
    LET w1 == SetDiscard(w, w.handlers[t].failed)
        w2 == [w1 EXCEPT !.is_running = FALSE]
    IN IF w1.clients = {} /\ w1.is_running
       THEN IF w2.okx_connection = "open"
            THEN [w2 EXCEPT !.lock = "handler", !.handlers[t].pc = "closing"]
            ELSE InnerLoop([w2 EXCEPT !.lock = ""], t)
       ELSE InnerLoop([w1 EXCEPT !.lock = ""], t)

\* The loop over self.clients is over; the clean-up waits for the lock.
BroadcastEnd(t) ==
    /\ Runs(t, "send")
    /\ Cardinality(ws.clients) = ws.handlers[t].used
    /\ ws.handlers[t].todo = {}
    /\ ws.handlers[t].failed = {} \/ ws.lock = ""
    /\ ws' = IF ws.handlers[t].failed = {} THEN InnerLoop(ws, t) ELSE Cleanup(ws, t)
    /\ UNCHANGED streamFrame

\* The close of the upstream connection in _disconnect_from_okx, called from
\* the handler's own broadcast, is over.
HandlerClosed(t) ==
    /\ Runs(t, "closing")
    /\ ws' = InnerLoop([ws EXCEPT !.okx_connection = "none", !.lock = ""], t)
    /\ UNCHANGED streamFrame

NextFan ==
    \/ \E c \in Clients : Accept(c)
    \/ \E c \in Clients, ok \in BOOLEAN, ahead \in BOOLEAN : ConnectClient(c, ok, ahead)
    \/ \E c \in Clients : ClientGone(c)
    \/ \E c \in Clients : DisconnectClient(c)
    \/ \E c \in Clients : DisconnectFinish(c)
    \/ \E t \in 1..MaxTasks : HandlerCancelled(t)
    \/ \E t \in 1..MaxTasks : HandlerStart(t)
    \/ \E t \in 1..MaxTasks, outcome \in {"ok", "WebSocketException", "OSError"} :
          HandlerConnect(t, outcome)
    \/ \E t \in 1..MaxTasks : HandlerBackoff(t)
    \/ \E t \in 1..MaxTasks, c \in Clients, ok \in BOOLEAN : HandlerRecvData(t, c, ok)
    \/ \E t \in 1..MaxTasks : HandlerRecvClosed(t)
    \/ \E t \in 1..MaxTasks : BroadcastSetChanged(t)
    \/ \E t \in 1..MaxTasks, c \in Clients, ok \in BOOLEAN : BroadcastSend(t, c, ok)
    \/ \E t \in 1..MaxTasks : BroadcastEnd(t)
    \/ \E t \in 1..MaxTasks : HandlerClosed(t)

SpecFan == InitFan /\ [][NextFan]_vars

C34_ConnectedFirst ==
    \A c \in Clients :
        /\ ws.got[c] # <<>> => ws.got[c][1] = "connected"
        /\ \A i \in 2..Len(ws.got[c]) : ws.got[c][i] = "data"

\* c2 connected while a broadcast that began with c1 alone was suspended in its
\* send; the same broadcast then reached c2, after the connected message.
C34_Witness ==
    /\ ws.clients = {"c2"} /\ ws.got["c2"] = <<"connected", "data">>
    /\ Len(ws.handlers) = 1 /\ ws.handlers[1].pc = "send" /\ ws.handlers[1].used = 1
    /\ ws.got["c1"] = <<"connected", "data">>

\* C39: no upstream handler has ended because the client set changed while its
\* broadcast was suspended in a send: with a client still registered, the
\* handler is not left ended with is_running true.
C39_BroadcastSurvivesClientChange ==
    \A t \in 1..Len(ws.handlers) :
        ~(/\ ws.handlers[t].ended = "RuntimeError"
          /\ ws.is_running /\ ws.clients # {})

(***************************************************************************)
(* SpecWalk: the chunk loop of _download_and_store_historical_data alone,  *)
(* with the timestamps of the program: a window that starts on or off a    *)
(* minute boundary and ends up to three days later, every chunk fetched    *)
(* and written, or failed.                                                 *)
(***************************************************************************)
WalkResumes == {MinuteMs, MinuteMs + 30000, 2 * MinuteMs}
WalkEnds(resume) ==
    {resume - MinuteMs, resume, resume + MinuteMs,
     chunk_size_ms, resume + chunk_size_ms, resume + chunk_size_ms + MinuteMs,
     resume + chunk_size_ms + 2 * MinuteMs,
     resume + 2 * (chunk_size_ms + MinuteMs) - 1, resume + 2 * (chunk_size_ms + MinuteMs),
     3 * chunk_size_ms}

InitWalk ==
    /\ rows = {} /\ disk = {} /\ nextId = 1
    /\ sPc = "idle" /\ sQueue = NoMessage
    /\ bPc = "idle" /\ rPc = "idle" /\ ret = NoReturn /\ dPc = "idle"
    /\ ops = 0
    /\ lastUpsert = {} /\ failedApplied = {}
    /\ exch = {}
    /\ \E resume \in WalkResumes : \E end_time \in WalkEnds(resume) :
          h = [pc |-> "walk", resume_from |-> resume, end_time |-> end_time,
               current_download_start |-> resume, chunks |-> <<>>]
    /\ agg = [pc |-> "off"]
    /\ ws = StreamOff
    /\ fx = FetchOff
    /\ rd = NoRead

\* One turn of the loop in which the failure path does not move on.
WalkChunkStuck(ok) ==
    /\ h.pc = "walk" /\ h.current_download_start <= h.end_time
    /\ LET chunk_end_time == Min2(h.current_download_start + chunk_size_ms, h.end_time)
       IN h' = [h EXCEPT !.chunks = Append(@, [chunk_start |-> h.current_download_start,
                                               chunk_end |-> chunk_end_time, ok |-> ok]),
                         !.current_download_start =
                             IF ok THEN chunk_end_time + 60000 ELSE @]
    /\ UNCHANGED histFrame
    /\ UNCHANGED storeVars

\* One turn of the loop: the chunk is fetched, filtered and written (ok), or
\* the fetch or the write raises.
WalkChunk(ok) ==
    /\ h.pc = "walk" /\ h.current_download_start <= h.end_time
    /\ LET chunk_end_time == Min2(h.current_download_start + chunk_size_ms, h.end_time)
       IN h' = [h EXCEPT !.chunks = Append(@, [chunk_start |-> h.current_download_start,
                                               chunk_end |-> chunk_end_time, ok |-> ok]),
                         !.current_download_start =
                             IF ok THEN chunk_end_time + 60000 ELSE chunk_end_time + 60000]
    /\ UNCHANGED histFrame
    /\ UNCHANGED storeVars

\* The loop condition fails.
WalkReturn ==
    /\ h.pc = "walk" /\ h.current_download_start > h.end_time
    /\ h' = [h EXCEPT !.pc = "done"]
    /\ UNCHANGED histFrame
    /\ UNCHANGED storeVars

NextWalk ==
    \/ \E ok \in BOOLEAN : WalkChunk(ok)
    \/ WalkReturn

SpecWalk == InitWalk /\ [][NextWalk]_vars

\* The minute boundaries of the window.
WalkMinutes ==
    {k * MinuteMs : k \in (h.resume_from \div MinuteMs)..(h.end_time \div MinuteMs)}
        \cap h.resume_from..h.end_time

\* C35: when the walk is over, every minute boundary of [resume_from, end] lies
\* in the filter range of exactly one chunk.
C35_WalkCoversWindow ==
    h.pc = "done" =>
        \A t \in WalkMinutes :
            Cardinality({i \in 1..Len(h.chunks) :
                            h.chunks[i].chunk_start <= t /\ t <= h.chunks[i].chunk_end}) = 1

MaxCallers == 2

NoCall == [op |-> "", pair |-> "", pc |-> "idle"]

InitCalls ==
    /\ rows = {} /\ disk = {} /\ nextId = 1
    /\ sPc = "idle" /\ sQueue = NoMessage
    /\ bPc = "idle" /\ rPc = "idle" /\ ret = NoReturn /\ dPc = "idle"
    /\ ops = 0
    /\ lastUpsert = {} /\ failedApplied = {}
    /\ exch = {}
    /\ h = HistOff
    /\ agg = [pc |-> "off"]
    /\ \E watch_pairs \in WatchLists :
          ws = [pc |-> "calls", watch_pairs |-> watch_pairs,
                subscriptions |-> [i \in 1..Len(watch_pairs) |-> Channel(watch_pairs[i])],
                tasks |-> [i \in 1..MaxCallers |-> NoCall]]
    /\ fx = FetchOff
    /\ rd = NoRead

\* list.remove(x): ValueError when x is not in the list.
ListRemove(w, i, x) ==
    IF x \in SeqRange(w.watch_pairs)
    THEN [w EXCEPT !.watch_pairs = Without(@, x), !.tasks[i].pc = "returned"]
    ELSE [w EXCEPT !.tasks[i].pc = "raised"]

\* add_watch_pair up to the send of subscribe, or to its return.
AddBegin(i, coin_pair) ==
    /\ ws.pc = "calls" /\ ws.tasks[i].pc = "idle"
    /\ ws' = IF coin_pair \notin SeqRange(ws.watch_pairs)
             THEN [ws EXCEPT !.watch_pairs = Append(@, coin_pair),
                             !.tasks[i] = [op |-> "add", pair |-> coin_pair, pc |-> "send"]]
             ELSE [ws EXCEPT !.tasks[i] = [op |-> "add", pair |-> coin_pair,
                                           pc |-> "returned"]]
    /\ UNCHANGED streamFrame

\* subscribe after its send and the rest of add_watch_pair.
AddEnd(i, sent) ==
    /\ ws.pc = "calls" /\ ws.tasks[i].pc = "send" /\ ws.tasks[i].op = "add"
    /\ LET coin_pair == ws.tasks[i].pair
       IN ws' = IF sent
                THEN [ws EXCEPT !.subscriptions =
                                    SaveSubscriptions(@, <<Channel(coin_pair)>>),
                                !.tasks[i].pc = "returned"]
                ELSE ListRemove(ws, i, coin_pair)
    /\ UNCHANGED streamFrame

\* remove_watch_pair up to the send of unsubscribe, or to its return.
RemoveBegin(i, coin_pair) ==
    /\ ws.pc = "calls" /\ ws.tasks[i].pc = "idle"
    /\ ws' = [ws EXCEPT !.tasks[i] =
                 [op |-> "remove", pair |-> coin_pair,
                  pc |-> IF coin_pair \in SeqRange(ws.watch_pairs) THEN "send"
                         ELSE "returned"]]
    /\ UNCHANGED streamFrame

\* unsubscribe after its send and the rest of remove_watch_pair.
RemoveEnd(i, sent) ==
    /\ ws.pc = "calls" /\ ws.tasks[i].pc = "send" /\ ws.tasks[i].op = "remove"
    /\ LET coin_pair == ws.tasks[i].pair
       IN ws' = IF sent
                THEN ListRemove([ws EXCEPT !.subscriptions =
                                               WithoutAll(@, <<Channel(coin_pair)>>)],
                                i, coin_pair)
                ELSE [ws EXCEPT !.tasks[i].pc = "returned"]
    /\ UNCHANGED streamFrame

NextCalls ==
    \/ \E i \in 1..MaxCallers, pair \in Pairs : AddBegin(i, pair)
    \/ \E i \in 1..MaxCallers, sent \in BOOLEAN : AddEnd(i, sent)
    \/ \E i \in 1..MaxCallers, pair \in Pairs : RemoveBegin(i, pair)
    \/ \E i \in 1..MaxCallers, sent \in BOOLEAN : RemoveEnd(i, sent)

SpecCalls == InitCalls /\ [][NextCalls]_vars

\* C37: once no call is suspended at its send, the candle1m keys of the table
\* are those of the watch list, and no call has raised.
C37_CallsKeepTableAndList ==
    (\A i \in 1..MaxCallers : ws.tasks[i].pc # "send") =>
        /\ SeqRange(ws.subscriptions) = {Channel(p) : p \in SeqRange(ws.watch_pairs)}
        /\ \A i \in 1..MaxCallers : ws.tasks[i].pc # "raised"

(***************************************************************************)
(* SpecAdmin: the watch-list handlers of app/api/data.py, one after the    *)
(* other, on the coin_pair_watch table and on a collector built from its   *)
(* enabled records, while the stream connection comes and goes.            *)
(***************************************************************************)
\* coin_pair_watch after the start-up of app/main.py: no record, or enabled
\* = 1 or 0, for each pair; the collector's list holds the enabled ones.
InitAdmin ==
    /\ rows = {} /\ disk = {} /\ nextId = 1
    /\ sPc = "idle" /\ sQueue = NoMessage
    /\ bPc = "idle" /\ rPc = "idle" /\ ret = NoReturn /\ dPc = "idle"
    /\ ops = 0
    /\ lastUpsert = {} /\ failedApplied = {}
    /\ exch = {}
    /\ h = HistOff
    /\ agg = [pc |-> "off"]
    /\ \E watch_pairs \in WatchLists \ {<<>>} :
       \E coin_pair_watch \in [Pairs -> {"none", "enabled", "disabled"}] :
          /\ {p \in Pairs : coin_pair_watch[p] = "enabled"} = SeqRange(watch_pairs)
          /\ ws = [pc |-> "created", watch_pairs |-> watch_pairs, subscriptions |-> <<>>,
                   conn |-> 0, open |-> FALSE, pending |-> <<>>, server |-> {},
                   inbox |-> <<>>, frames |-> 0, calls |-> 0,
                   last |-> [op |-> "", pair |-> "", sent |-> "none"],
                   delivered |-> {}, coin_pair_watch |-> coin_pair_watch]
    /\ fx = FetchOff
    /\ rd = NoRead

\* A handler has updated the table to tbl and called the collector, or not.
AdminDone(op, pair, tbl, res) ==
    ws' = [res.ws EXCEPT !.coin_pair_watch = tbl, !.calls = @ + 1,
                         !.last = [op |-> op, pair |-> pair, sent |-> res.sent]]

\* POST /watch-pairs: db.add_watch_pair, then the collector's add when enabled.
AdminAdd(coin_pair, enabled) ==
    /\ ws.pc \notin {"off", "resubscribe"} /\ ws.calls < MaxCalls
    /\ AdminDone("add_or_enable", coin_pair,
                 [ws.coin_pair_watch EXCEPT ![coin_pair] =
                      IF enabled THEN "enabled" ELSE "disabled"],
                 IF enabled THEN add_watch_pair(ws, coin_pair)
                 ELSE [ws |-> ws, sent |-> "none"])
    /\ UNCHANGED streamFrame

\* DELETE /watch-pairs: db.remove_watch_pair, then the collector's remove.
AdminRemove(coin_pair) ==
    /\ ws.pc \notin {"off", "resubscribe"} /\ ws.calls < MaxCalls
    /\ AdminDone("remove", coin_pair,
                 [ws.coin_pair_watch EXCEPT ![coin_pair] = "none"],
                 remove_watch_pair(ws, coin_pair))
    /\ UNCHANGED streamFrame

\* PUT /watch-pairs/toggle: db.toggle_watch_pair (an UPDATE, no record is
\* made), then the collector's add or remove.
AdminToggle(coin_pair, enabled) ==
    /\ ws.pc \notin {"off", "resubscribe"} /\ ws.calls < MaxCalls
    /\ AdminDone("set_enabled", coin_pair,
                 [ws.coin_pair_watch EXCEPT ![coin_pair] =
                      IF @ = "none" THEN "none"
                      ELSE IF enabled THEN "enabled" ELSE "disabled"],
                 IF enabled THEN add_watch_pair(ws, coin_pair)
                 ELSE remove_watch_pair(ws, coin_pair))
    /\ UNCHANGED streamFrame

NextAdmin ==
    \/ CollectorStart
    \/ ClientConnect
    \/ ClientConnectFail
    \/ ClientResubscribe
    \/ ServerDrop
    \/ \E how \in {"ConnectionClosed", "end of iteration"} : ClientClosed(how)
    \/ ClientWake
    \/ \E pair \in Pairs, enabled \in BOOLEAN : AdminAdd(pair, enabled)
    \/ \E pair \in Pairs : AdminRemove(pair)
    \/ \E pair \in Pairs, enabled \in BOOLEAN : AdminToggle(pair, enabled)

SpecAdmin == InitAdmin /\ [][NextAdmin]_vars

\* C38: after a watch-list handler has returned success on a started
\* collector, the pairs of the collector's list and of its subscription table
\* (the channels it is subscribed to and subscribes again after a reconnect)
\* are the pairs whose record is enabled.
C38_CollectorFollowsWatchList ==
    (ws.pc # "created" /\ ws.last.op \in {"add_or_enable", "remove", "set_enabled"}) =>
        LET enabled == {p \in Pairs : ws.coin_pair_watch[p] = "enabled"}
        IN /\ SeqRange(ws.watch_pairs) = enabled
           /\ SeqRange(ws.subscriptions) = {Channel(p) : p \in enabled}

(***************************************************************************)
(* SpecLatest: get_latest_candles applied to every store of the family of  *)
(* SpecAgg.                                                                *)
(***************************************************************************)
\* DataAggregator.get_latest_candles: [err, out].
get_latest_candles(tbl, coin_pair, interval, limit) ==
    LET latest == get_latest_candle(tbl, coin_pair)
        interval_minutes == _parse_interval(interval)
    IN IF latest = <<>> THEN [err |-> "", out |-> <<>>]
       ELSE IF interval_minutes = NoArg THEN [err |-> "ValueError", out |-> <<>>]
       ELSE LET interval_ms == interval_minutes * 60 * 1000
                start_time == latest[1].timestamp - (limit * interval_ms)
            IN aggregate_candles(tbl, coin_pair, interval, start_time, NoArg, limit)

LatestLimits == {1, 2, 3}

InitLatest ==
    /\ rows \in AggStores /\ disk = rows /\ nextId = Cardinality(rows) + 1
    /\ sPc = "idle" /\ sQueue = NoMessage
    /\ bPc = "idle" /\ rPc = "idle" /\ ret = NoReturn /\ dPc = "idle"
    /\ ops = 0
    /\ lastUpsert = {} /\ failedApplied = {}
    /\ exch = {}
    /\ h = HistOff
    /\ agg = [pc |-> "idle"]
    /\ ws = StreamOff
    /\ fx = FetchOff
    /\ rd = NoRead

\* GET /candles without start_time and end_time.
LatestCall(interval, limit) ==
    /\ agg.pc = "idle"
    /\ LET res == get_latest_candles(rows, AggPair, interval, limit)
       IN agg' = [pc |-> "done", interval |-> interval, limit |-> limit,
                  err |-> res.err, out |-> res.out]
    /\ UNCHANGED <<storeVars, taskVars, exch, h, ws, fx, rd>>

NextLatest ==
    \E interval \in AggIntervals : \E limit \in LatestLimits : LatestCall(interval, limit)

SpecLatest == InitLatest /\ [][NextLatest]_vars

\* C40: for a pair with a stored bar, get_latest_candles returns at most limit
\* bars, ascending, and the last of them is the bar or the bucket that holds
\* the latest stored bar of the pair.
C40_LatestEndsAtLatestBar ==
    (agg.pc = "done" /\ rows # {}) =>
        LET out == agg.out
            interval_ms == _parse_interval(agg.interval) * 60 * 1000
            latest == get_latest_candle(rows, AggPair)[1]
        IN /\ agg.err = ""
           /\ Len(out) <= agg.limit
           /\ \A i \in 1..(Len(out) - 1) : out[i].timestamp < out[i + 1].timestamp
           /\ out # <<>>
           /\ out[Len(out)].timestamp <= latest.timestamp
           /\ latest.timestamp < out[Len(out)].timestamp + interval_ms

====
